---- MODULE Spec2Model ----
(***************************************************************************)
(* A model of goar: the chunker, the Merkle tree builder, the proof        *)
(* generator and validator (transaction/merkle.go), and the ANS-104 data   *)
(* item codec (transaction/data_item).                                     *)
(*                                                                         *)
(* Byte strings.  A []byte is a sequence of items in canonical form:       *)
(*   <<b, n>>               n >= 1 copies of the plain byte b (0..255)      *)
(*   <<kind, x, lo, hi>>    bytes lo..hi-1 of the digest that the function *)
(*                          `kind` ("sha256", "sha384", "rsa") yields on   *)
(*                          the byte string x                              *)
(* Adjacent items that continue each other are merged, so two byte strings *)
(* are equal exactly when their representations are equal, provided the    *)
(* digest functions are collision free and their output bytes are generic  *)
(* (the symbolic model of a hash).  A payload of a megabyte is one item.   *)
(***************************************************************************)
EXTENDS Integers, Sequences, FiniteSets, TLC

VARIABLES
    data,      \* the payload given to generateTransactionChunks
    chunks,    \* what chunkData returned for it
    txChunks,  \* the ChunkData: DataRoot, Chunks, Proofs
    vcall,     \* the last validatePath call and its result
    mpc,       \* position of the Merkle run
    item,      \* the DataItem d
    serr,      \* what d.Sign returned
    verr,      \* what d.Verify returned
    dec,       \* the last Decode call and its result
    ipc,       \* position of the data item run
    shared,    \* whether the two streamed items were made over one stream handle
    rd,        \* the stream handles: content and read position of each
    sitem,     \* the streamed DataItem of each goroutine
    pass,      \* the pass each goroutine is in or has finished
    raced,     \* whether two passes have been on one handle at the same time
    bitems,    \* the data items given to bundle.New
    bundle,    \* what bundle.New returned
    bcall,     \* the last bundle.Decode and bundle.Verify call and its results
    bpc,       \* position of the bundle run
    tx,        \* the Transaction
    txres,     \* what tx.Sign and tx.Verify returned
    tpc,       \* position of the transaction run
    tu,        \* the TransactionUploader
    ucall      \* the last call on the uploader, its result and the request it made

merkleVars == <<data, chunks, txChunks, vcall, mpc>>

itemVars == <<item, serr, verr, dec, ipc>>

streamVars == <<shared, rd, sitem, pass, raced>>

bundleVars == <<bitems, bundle, bcall, bpc>>

txVars == <<tx, txres, tpc>>

uploaderVars == <<tu, ucall>>

vars == <<data, chunks, txChunks, vcall, mpc, item, serr, verr, dec, ipc,
          shared, rd, sitem, pass, raced, bitems, bundle, bcall, bpc, tx, txres, tpc,
          tu, ucall>>

----------------------------------------------------------------------------
(* Byte string primitives (Go slices: len, append, s[lo:hi], s[i]).        *)

ItemLen(it) == IF Len(it) = 2 THEN it[2] ELSE it[4] - it[3]

ItemSub(it, a, b) ==
    IF Len(it) = 2 THEN <<it[1], b - a>> ELSE <<it[1], it[2], it[3] + a, it[3] + b>>

Mergeable(x, y) ==
    IF Len(x) # Len(y) THEN FALSE
    ELSE IF Len(x) = 2 THEN x[1] = y[1]
    ELSE x[1] = y[1] /\ x[4] = y[3] /\ x[2] = y[2]

Merge(x, y) == IF Len(x) = 2 THEN <<x[1], x[2] + y[2]>> ELSE <<x[1], x[2], x[3], y[4]>>

\* append(a, b...)
Cat(a, b) ==
    IF Len(a) = 0 THEN b
    ELSE IF Len(b) = 0 THEN a
    ELSE IF Mergeable(a[Len(a)], b[1])
         THEN SubSeq(a, 1, Len(a) - 1) \o <<Merge(a[Len(a)], b[1])>> \o Tail(b)
         ELSE a \o b

RECURSIVE BLenFrom(_, _)
BLenFrom(s, i) == IF i > Len(s) THEN 0 ELSE ItemLen(s[i]) + BLenFrom(s, i + 1)

\* len(s)
BLen(s) == BLenFrom(s, 1)

RECURSIVE SliceFrom(_, _, _, _)
SliceFrom(s, i, lo, hi) ==
    IF i > Len(s) \/ hi <= 0 THEN <<>>
    ELSE LET l == ItemLen(s[i]) IN
         IF lo >= l THEN SliceFrom(s, i + 1, lo - l, hi - l)
         ELSE LET a == IF lo > 0 THEN lo ELSE 0
                  b == IF hi < l THEN hi ELSE l
              IN  <<ItemSub(s[i], a, b)>> \o SliceFrom(s, i + 1, 0, hi - l)

\* s[lo:hi] for 0 <= lo <= hi <= len(s); the callers model Go's bounds checks
Slice(s, lo, hi) == IF lo >= hi THEN <<>> ELSE SliceFrom(s, 1, lo, hi)

\* the byte string of n copies of the plain byte b
Fill(b, n) == IF n <= 0 THEN <<>> ELSE << <<b, n>> >>

IsPlain(s) == \A i \in 1..Len(s) : Len(s[i]) = 2

RECURSIVE ByteValsFrom(_, _)
ByteValsFrom(s, i) ==
    IF i > Len(s) THEN <<>>
    ELSE [k \in 1..ItemLen(s[i]) |-> s[i][1]] \o ByteValsFrom(s, i + 1)

\* the numeric values of the bytes of a plain byte string
ByteVals(s) == ByteValsFrom(s, 1)

\* int(s[i]) for a plain byte at index i < len(s)
ByteAt(s, i) == Slice(s, i, i + 1)[1][1]

\* s with the byte at index pos replaced by the one-byte string nb
SetByte(s, pos, nb) ==
    Cat(Cat(Slice(s, 0, pos), nb), Slice(s, pos + 1, BLen(s)))

Min2(a, b) == IF a < b THEN a ELSE b

Max2(a, b) == IF a > b THEN a ELSE b

----------------------------------------------------------------------------
(* crypto: SHA-256 and base64url.                                          *)

HASH_SIZE == 32

NOTE_SIZE == 32

MAX_CHUNK_SIZE == 256 * 1024

MIN_CHUNK_SIZE == 32 * 1024

\* crypto.SHA256: a collision-free function to 32 generic bytes
SHA256(x) == << <<"sha256", x, 0, HASH_SIZE>> >>

(* A base64url string is the byte string it decodes to, together with the  *)
(* value of the unused low bits of its last character: 0 in every string   *)
(* the encoder writes, any value in a string the (non-strict) decoder      *)
(* reads.  valid = FALSE is a string that is not base64url at all.         *)
Base64URLEncode(b) == [valid |-> TRUE, raw |-> b, pad |-> 0]

Base64URLDecodeErr(s) == ~s.valid

Base64URLDecode(s) == s.raw

EmptyString == [valid |-> TRUE, raw |-> <<>>, pad |-> 0]

----------------------------------------------------------------------------
(* transaction/utils.go                                                    *)

\* the k-th base-256 digit of n, counted from the least significant
Digit256(n, k) == (n \div (256 ^ k)) % 256

(* intToByteArray: the loop writes byteArray[i] = n % 256 and divides n by  *)
(* 256, from index 31 down to 0: n as 32 big-endian bytes.  The model's n  *)
(* is below 2^31, so the upper 28 bytes are zero.                          *)
intToByteArray(n) ==
    Cat(Cat(Cat(Cat(Fill(0, NOTE_SIZE - 4), Fill(Digit256(n, 3), 1)),
                Fill(Digit256(n, 2), 1)), Fill(Digit256(n, 1), 1)), Fill(Digit256(n, 0), 1))

\* stand-ins for a 64-bit int that the model checker's integers cannot hold:
\* any value of 2^31 - 1 or more, and any negative value
IntHuge == 2147483646 + 1

IntNegative == 0 - 1

\* a decoder of the offset note that reads every note as 0
byteArrayToIntZero(b) == 0

(* byteArrayToInt: value = value*256 + b[i] over Go's 64-bit int, which    *)
(* wraps: only the last 8 bytes count, and the top bit is the sign.        *)
byteArrayToInt(b) ==
    LET v == ByteVals(b)
        n == Len(v)
        w == [k \in 1..8 |-> IF n - 8 + k >= 1 THEN v[n - 8 + k] ELSE 0]
    IN  IF w[1] >= 128 THEN IntNegative
        ELSE IF w[1] # 0 \/ w[2] # 0 \/ w[3] # 0 \/ w[4] # 0 \/ w[5] >= 128 THEN IntHuge
        ELSE ((w[5] * 256 + w[6]) * 256 + w[7]) * 256 + w[8]

----------------------------------------------------------------------------
(* transaction/merkle.go                                                   *)

Chunk(hash, lo, hi) == [DataHash |-> hash, MinByteRange |-> lo, MaxByteRange |-> hi]

\* int(math.Ceil(float64(byteLength) / 2))
CeilHalf(n) == (n + 1) \div 2

\* mutant: a small remainder is merged into the current chunk instead of rebalancing
chunkSizeMerged(byteLength) ==
    LET nextChunkSize == byteLength - MAX_CHUNK_SIZE
    IN  IF nextChunkSize > 0 /\ nextChunkSize < MIN_CHUNK_SIZE
        THEN byteLength
        ELSE MAX_CHUNK_SIZE

chunkSizeRebalanced(byteLength) ==
    LET nextChunkSize == byteLength - MAX_CHUNK_SIZE
    IN  IF nextChunkSize > 0 /\ nextChunkSize < MIN_CHUNK_SIZE
        THEN CeilHalf(byteLength)
        ELSE MAX_CHUNK_SIZE

RECURSIVE chunkLoop(_, _, _)
chunkLoop(rest, cursor, acc) ==
    IF BLen(rest) >= MAX_CHUNK_SIZE
    THEN LET chunkSize == chunkSizeRebalanced(BLen(rest))
             chunk     == Slice(rest, 0, chunkSize)
             cursor2   == cursor + BLen(chunk)
         IN  chunkLoop(Slice(rest, chunkSize, BLen(rest)), cursor2,
                       Append(acc, Chunk(SHA256(chunk), cursor2 - BLen(chunk), cursor2)))
    ELSE Append(acc, Chunk(SHA256(rest), cursor, cursor + BLen(rest)))

\* mutant: the chunk for what remains after the loop ends one byte early
chunkDataShortFinal(d) ==
    LET cs == chunkLoop(d, 0, <<>>)
    IN  [cs EXCEPT ![Len(cs)].MaxByteRange = @ - 1]

chunkData(d) == chunkLoop(d, 0, <<>>)

NilNode == [Type |-> "Nil"]

generateLeaves(cs) ==
    [i \in 1..Len(cs) |->
        [ID           |-> SHA256(Cat(SHA256(cs[i].DataHash),
                                     SHA256(intToByteArray(cs[i].MaxByteRange)))),
         DataHash     |-> cs[i].DataHash,
         ByteRange    |-> 0,
         MaxByteRange |-> cs[i].MaxByteRange,
         Type         |-> "Leaf",
         LeftChild    |-> NilNode,
         RightChild   |-> NilNode]]

hashBranch(left, right) ==
    IF right.Type = "Nil" THEN left
    ELSE [ID           |-> SHA256(Cat(SHA256(left.ID),
                                  Cat(SHA256(right.ID),
                                      SHA256(intToByteArray(left.MaxByteRange))))),
          DataHash     |-> <<>>,
          ByteRange    |-> left.MaxByteRange,
          MaxByteRange |-> right.MaxByteRange,
          Type         |-> "Branch",
          LeftChild    |-> left,
          RightChild   |-> right]

RECURSIVE buildLayer(_, _)
buildLayer(nodes, level) ==
    IF Len(nodes) < 2 THEN nodes[1]
    ELSE buildLayer([j \in 1..((Len(nodes) + 1) \div 2) |->
                        hashBranch(nodes[2 * j - 1],
                                   IF 2 * j <= Len(nodes) THEN nodes[2 * j] ELSE NilNode)],
                    level + 1)

Proof(offset, path) == [Offset |-> offset, Proof |-> path]

leafProofBytes(node, proof) ==
    Cat(Cat(proof, node.DataHash), intToByteArray(node.MaxByteRange))

\* mutant: the branch record carries the branch's end offset, not the split offset
branchProofBytesMaxRange(node, proof) ==
    Cat(Cat(Cat(proof, node.LeftChild.ID), node.RightChild.ID),
        intToByteArray(node.MaxByteRange))

branchProofBytes(node, proof) ==
    Cat(Cat(Cat(proof, node.LeftChild.ID), node.RightChild.ID), intToByteArray(node.ByteRange))

RECURSIVE generateProofs(_, _, _)
generateProofs(node, proof, depth) ==
    IF node.Type = "Leaf"
    THEN <<Proof(node.MaxByteRange - 1, leafProofBytes(node, proof))>>
    ELSE generateProofs(node.LeftChild, branchProofBytes(node, proof), depth + 1)
         \o generateProofs(node.RightChild, branchProofBytes(node, proof), depth + 1)

generateTree(d) == buildLayer(generateLeaves(chunkData(d)), 0)

\* mutant: the zero-length last chunk is discarded and its proof is kept
dropZeroLengthChunkOnly(cs, ps) ==
    LET lastChunk == cs[Len(cs)]
    IN  IF lastChunk.MaxByteRange - lastChunk.MinByteRange = 0
        THEN [Chunks |-> SubSeq(cs, 1, Len(cs) - 1), Proofs |-> ps]
        ELSE [Chunks |-> cs, Proofs |-> ps]

\* the zero-length last chunk and its proof are discarded
dropZeroLengthTail(cs, ps) ==
    LET lastChunk == cs[Len(cs)]
    IN  IF lastChunk.MaxByteRange - lastChunk.MinByteRange = 0
        THEN [Chunks |-> SubSeq(cs, 1, Len(cs) - 1), Proofs |-> SubSeq(ps, 1, Len(ps) - 1)]
        ELSE [Chunks |-> cs, Proofs |-> ps]

generateTransactionChunks(d) ==
    LET cs     == chunkData(d)
        root   == buildLayer(generateLeaves(cs), 0)
        proofs == generateProofs(root, <<>>, 0)
        kept   == dropZeroLengthTail(cs, proofs)
    IN  [DataRoot |-> Base64URLEncode(root.ID), Chunks |-> kept.Chunks, Proofs |-> kept.Proofs]

VOk(offset, leftBound, rightBound) ==
    [outcome |-> "ok", msg |-> "", Offset |-> offset, LeftBound |-> leftBound,
     RightBound |-> rightBound, ChunkSize |-> rightBound - leftBound]

VErr(m) ==
    [outcome |-> "error", msg |-> m, Offset |-> 0, LeftBound |-> 0, RightBound |-> 0,
     ChunkSize |-> 0]

\* a run-time panic: slice bounds out of range
VPanic ==
    [outcome |-> "panic", msg |-> "slice bounds out of range", Offset |-> 0, LeftBound |-> 0,
     RightBound |-> 0, ChunkSize |-> 0]

\* mutant: the leaf record is accepted without comparing its hash with id
leafHashUnchecked(id, path) == BLen(path) = HASH_SIZE + NOTE_SIZE

\* the leaf record of a path: id == SHA256(SHA256(pathData) ++ SHA256(endOffsetBuffer))
leafHashMatches(id, path) ==
    id = SHA256(Cat(SHA256(Slice(path, 0, HASH_SIZE)),
                    SHA256(Slice(path, HASH_SIZE, HASH_SIZE + NOTE_SIZE))))

\* a branch record: id == SHA256(SHA256(left) ++ SHA256(right) ++ SHA256(offsetBuffer))
branchHashMatches(id, path) ==
    id = SHA256(Cat(Cat(SHA256(Slice(path, 0, HASH_SIZE)),
                        SHA256(Slice(path, HASH_SIZE, 2 * HASH_SIZE))),
                    SHA256(Slice(path, 2 * HASH_SIZE, 2 * HASH_SIZE + NOTE_SIZE))))

(* validatePath.  When len(path) is neither 64 nor at least 96, the slice   *)
(* expressions path[0:32], path[32:64], path[64:96] panic unless the        *)
(* capacity of path happens to reach that far, and then path[96:] panics    *)
(* because its upper bound is len(path): the call panics whatever the       *)
(* capacity is.                                                             *)
RECURSIVE validatePath(_, _, _, _, _)
validatePath(id, dest, leftBound, rightBound, path) ==
    IF rightBound <= 0 THEN VErr("right bound < 0")
    ELSE IF dest >= rightBound THEN validatePath(id, 0, rightBound - 1, rightBound, path)
    ELSE IF dest < 0 THEN validatePath(id, 0, 0, rightBound, path)
    ELSE IF BLen(path) = HASH_SIZE + NOTE_SIZE
    THEN IF leafHashMatches(id, path)
         THEN VOk(rightBound - 1, leftBound, rightBound)
         ELSE VErr("invalid path")
    ELSE IF BLen(path) < 2 * HASH_SIZE + NOTE_SIZE THEN VPanic
    ELSE LET left      == Slice(path, 0, HASH_SIZE)
             right     == Slice(path, HASH_SIZE, 2 * HASH_SIZE)
             offset    == byteArrayToInt(Slice(path, 2 * HASH_SIZE, 2 * HASH_SIZE + NOTE_SIZE))
             remainder == Slice(path, 2 * HASH_SIZE + NOTE_SIZE, BLen(path))
         IN  IF branchHashMatches(id, path)
             THEN IF dest < offset
                  THEN validatePath(left, dest, leftBound, Min2(rightBound, offset), remainder)
                  ELSE validatePath(right, dest, Max2(leftBound, offset), rightBound, remainder)
             ELSE VErr("no valid path")

----------------------------------------------------------------------------
(* Payloads and calls of the Merkle specification.                         *)

\* payloads hold up to MaxFullChunks maximal chunks and a remainder
MaxFullChunks == 4

\* length of the stripes of equal bytes in a striped payload
StripeLen == 100000

Remainders == {0, 1, MIN_CHUNK_SIZE - 1, MIN_CHUNK_SIZE, MAX_CHUNK_SIZE - 1}

PayloadLens == {k * MAX_CHUNK_SIZE + r : k \in 0..MaxFullChunks, r \in Remainders}

RECURSIVE Stripes(_, _)
Stripes(n, j) ==
    IF n <= 0 THEN <<>>
    ELSE Cat(Fill(1 + (j % 200), Min2(n, StripeLen)), Stripes(n - StripeLen, j + 1))

\* pattern 0: n zero bytes; pattern 1: stripes, so that the chunks differ
Payload(n, pattern) == IF pattern = 0 THEN Fill(0, n) ELSE Stripes(n, 0)

NoCall == [kind |-> "none"]

\* the offsets tried inside the byte range of chunk c
DestsIn(c) ==
    {d \in {c.MinByteRange, c.MinByteRange + 1, (c.MinByteRange + c.MaxByteRange) \div 2,
            c.MaxByteRange - 1} : c.MinByteRange <= d /\ d < c.MaxByteRange}

\* one-byte strings a tampered byte may become
TamperBytes == {Fill(0, 1), Fill(255, 1), << <<"sha256", <<>>, 0, 1>> >>}

\* the byte positions tampered with: the first, an inner and the last byte of each
\* 32-byte field of the path
TamperPositions(path) ==
    {f * HASH_SIZE + o : f \in 0..((BLen(path) \div HASH_SIZE) - 1), o \in {0, 17, HASH_SIZE - 1}}

\* malformed variants of a generated path: truncated or extended
MalformedPaths(path) ==
    {Slice(path, 0, k) : k \in {0, 1, 63, 65, 95, BLen(path) - 1, BLen(path) - 63,
                                BLen(path) - 64} \cap 0..BLen(path)}
    \cup {Cat(path, Fill(0, 1)), Cat(path, Fill(0, 31))}

treeRoot == Base64URLDecode(txChunks.DataRoot)

\* io.ReadSeeker: nil, or a stream with its content and read position
NilReader == [nil |-> TRUE, content |-> <<>>, pos |-> 0]

\* the zero DataItem
NilItem ==
    [ID |-> EmptyString, Signature |-> EmptyString, SignatureType |-> 0,
     Owner |-> EmptyString, Target |-> EmptyString, Anchor |-> <<>>, Tags |-> <<>>,
     Data |-> EmptyString, Raw |-> <<>>, DataReader |-> NilReader, DataSize |-> 0]

NoDecode == [kind |-> "none"]

\* no data item run takes place
ItemIdle ==
    /\ item = NilItem
    /\ serr = "unset"
    /\ verr = "unset"
    /\ dec = NoDecode
    /\ ipc = "idle"

\* no Merkle run takes place
MerkleIdle ==
    /\ data = <<>>
    /\ chunks = <<>>
    /\ txChunks = [DataRoot |-> EmptyString, Chunks |-> <<>>, Proofs |-> <<>>]
    /\ vcall = NoCall
    /\ mpc = "idle"

\* no pass on a streamed item takes place
StreamIdle ==
    /\ shared = FALSE
    /\ rd = <<>>
    /\ sitem = <<>>
    /\ pass = <<>>
    /\ raced = FALSE

\* no bundle run takes place
BundleIdle ==
    /\ bitems = <<>>
    /\ bundle = [kind |-> "none"]
    /\ bcall = [kind |-> "none"]
    /\ bpc = "idle"

\* no transaction run takes place
TxIdle ==
    /\ tx = [Format |-> 0]
    /\ txres = [kind |-> "none"]
    /\ tpc = "idle"

\* no uploader has been made
UploaderIdle ==
    /\ tu = [ChunkIndex |-> 0]
    /\ ucall = [kind |-> "none"]

MerkleInit ==
    /\ \E n \in PayloadLens, pattern \in {0, 1} : data = Payload(n, pattern)
    /\ chunks = <<>>
    /\ txChunks = [DataRoot |-> EmptyString, Chunks |-> <<>>, Proofs |-> <<>>]
    /\ vcall = NoCall
    /\ mpc = "new"
    /\ ItemIdle
    /\ StreamIdle
    /\ BundleIdle
    /\ TxIdle
    /\ UploaderIdle

\* generateTransactionChunks(data); chunks records what its chunkData call returned
GenerateTransactionChunks ==
    /\ mpc = "new"
    /\ chunks' = chunkData(data)
    /\ txChunks' = generateTransactionChunks(data)
    /\ mpc' = "prepared"
    /\ UNCHANGED <<data, vcall>>
    /\ UNCHANGED <<itemVars, streamVars, bundleVars, txVars, uploaderVars>>

\* validatePath(root, dest, 0, len(data), Proofs[i].Proof) for a dest in chunk i
ValidateProof ==
    /\ mpc = "prepared"
    /\ \E i \in 1..Len(txChunks.Proofs) :
       \E dest \in DestsIn(txChunks.Chunks[i]) \cup {txChunks.Proofs[i].Offset} :
          vcall' = [kind |-> "proof", index |-> i, dest |-> dest, pos |-> 0,
                    res |-> validatePath(treeRoot, dest, 0, BLen(data),
                                         txChunks.Proofs[i].Proof)]
    /\ mpc' = "validated"
    /\ UNCHANGED <<data, chunks, txChunks>>
    /\ UNCHANGED <<itemVars, streamVars, bundleVars, txVars, uploaderVars>>

\* validatePath on a generated proof that validates, with one byte of the path changed
ValidateTamperedPath ==
    /\ mpc = "prepared"
    /\ \E i \in 1..Len(txChunks.Proofs) :
       LET path == txChunks.Proofs[i].Proof
           dest == txChunks.Proofs[i].Offset
       IN  /\ validatePath(treeRoot, dest, 0, BLen(data), path).outcome = "ok"
           /\ \E pos \in TamperPositions(path), nb \in TamperBytes :
                /\ nb # Slice(path, pos, pos + 1)
                /\ vcall' = [kind |-> "tamperPath", index |-> i, dest |-> dest, pos |-> pos,
                             res |-> validatePath(treeRoot, dest, 0, BLen(data),
                                                  SetByte(path, pos, nb))]
    /\ mpc' = "validated"
    /\ UNCHANGED <<data, chunks, txChunks>>
    /\ UNCHANGED <<itemVars, streamVars, bundleVars, txVars, uploaderVars>>

\* validatePath on a generated proof that validates, with one byte of the root changed
ValidateTamperedRoot ==
    /\ mpc = "prepared"
    /\ \E i \in 1..Len(txChunks.Proofs) :
       LET path == txChunks.Proofs[i].Proof
           dest == txChunks.Proofs[i].Offset
       IN  /\ validatePath(treeRoot, dest, 0, BLen(data), path).outcome = "ok"
           /\ \E pos \in 0..(HASH_SIZE - 1), nb \in TamperBytes :
                /\ nb # Slice(treeRoot, pos, pos + 1)
                /\ vcall' = [kind |-> "tamperRoot", index |-> i, dest |-> dest, pos |-> pos,
                             res |-> validatePath(SetByte(treeRoot, pos, nb), dest, 0,
                                                  BLen(data), path)]
    /\ mpc' = "validated"
    /\ UNCHANGED <<data, chunks, txChunks>>
    /\ UNCHANGED <<itemVars, streamVars, bundleVars, txVars, uploaderVars>>

\* validatePath on a path of the wrong length
ValidateMalformed ==
    /\ mpc = "prepared"
    /\ \E i \in 1..Len(txChunks.Proofs) :
       \E path \in MalformedPaths(txChunks.Proofs[i].Proof) :
          vcall' = [kind |-> "malformed", index |-> i, dest |-> txChunks.Proofs[i].Offset,
                    pos |-> BLen(path),
                    res |-> validatePath(treeRoot, txChunks.Proofs[i].Offset, 0, BLen(data),
                                         path)]
    /\ mpc' = "validated"
    /\ UNCHANGED <<data, chunks, txChunks>>
    /\ UNCHANGED <<itemVars, streamVars, bundleVars, txVars, uploaderVars>>

\* the offsets tried outside the byte range of chunk i: inside the other chunks,
\* below 0, and at and above the length of the payload
DestsOutside(i) ==
    UNION {DestsIn(txChunks.Chunks[j]) : j \in 1..Len(txChunks.Chunks) \ {i}}
    \cup {0 - 1, BLen(data), BLen(data) + 1}

\* validatePath(root, dest, 0, len(data), Proofs[i].Proof) for a dest outside chunk i
ValidateOtherDest ==
    /\ mpc = "prepared"
    /\ \E i \in 1..Len(txChunks.Proofs) :
       \E dest \in DestsOutside(i) :
          vcall' = [kind |-> "otherDest", index |-> i, dest |-> dest, pos |-> 0,
                    res |-> validatePath(treeRoot, dest, 0, BLen(data),
                                         txChunks.Proofs[i].Proof)]
    /\ mpc' = "validated"
    /\ UNCHANGED <<data, chunks, txChunks>>
    /\ UNCHANGED <<itemVars, streamVars, bundleVars, txVars, uploaderVars>>

MerkleNext ==
    \/ GenerateTransactionChunks
    \/ ValidateOtherDest
    \/ ValidateProof
    \/ ValidateTamperedPath
    \/ ValidateTamperedRoot
    \/ ValidateMalformed

Spec == MerkleInit /\ [][MerkleNext]_vars

----------------------------------------------------------------------------
(* Properties of the chunker, the tree and the proofs.                     *)

ChunkLen(c) == c.MaxByteRange - c.MinByteRange

\* C1: for every retained chunk c at index i and every dest tried in
\* [c.MinByteRange, c.MaxByteRange), validatePath(root, dest, 0, len(data),
\* Proofs[i].Proof) succeeds with LeftBound = c.MinByteRange, RightBound =
\* c.MaxByteRange, ChunkSize = their difference and Offset = c.MaxByteRange - 1.
ProofCompleteness ==
    (mpc = "validated" /\ vcall.kind = "proof") =>
        LET c == txChunks.Chunks[vcall.index]
        IN  (c.MinByteRange <= vcall.dest /\ vcall.dest < c.MaxByteRange) =>
              /\ vcall.res.outcome = "ok"
              /\ vcall.res.LeftBound = c.MinByteRange
              /\ vcall.res.RightBound = c.MaxByteRange
              /\ vcall.res.ChunkSize = c.MaxByteRange - c.MinByteRange
              /\ vcall.res.Offset = c.MaxByteRange - 1

\* the proof of the fifth chunk of five (an odd node carried up twice) validates
\* for an offset inside the chunk
ProofCompletenessWitness ==
    /\ mpc = "validated"
    /\ vcall.kind = "proof"
    /\ Len(txChunks.Chunks) = 5
    /\ vcall.index = 5
    /\ vcall.dest = txChunks.Chunks[5].MinByteRange + 1
    /\ vcall.res.outcome = "ok"
    /\ vcall.res.LeftBound = 4 * MAX_CHUNK_SIZE

\* C3: the chunks returned by chunkData are ordered and contiguous: the first
\* starts at 0, each starts where the previous one ends, none has a negative
\* length, and the last ends at the payload length.
ChunkCoverage ==
    mpc \in {"prepared", "validated"} =>
        /\ Len(chunks) >= 1
        /\ chunks[1].MinByteRange = 0
        /\ \A i \in 1..Len(chunks) : chunks[i].MinByteRange <= chunks[i].MaxByteRange
        /\ \A i \in 2..Len(chunks) : chunks[i].MinByteRange = chunks[i - 1].MaxByteRange
        /\ chunks[Len(chunks)].MaxByteRange = BLen(data)

\* a payload of several chunks whose last two were rebalanced
ChunkCoverageWitness ==
    /\ mpc = "prepared"
    /\ Len(chunks) >= 4
    /\ BLen(data) % MAX_CHUNK_SIZE = 1
    /\ ChunkLen(chunks[Len(chunks)]) = (MAX_CHUNK_SIZE + 1) \div 2

\* C4: every chunk of chunkData but the last has a length in
\* [MIN_CHUNK_SIZE, MAX_CHUNK_SIZE]; the last has a length in [0, MAX_CHUNK_SIZE].
ChunkSizing ==
    mpc \in {"prepared", "validated"} =>
        /\ \A i \in 1..(Len(chunks) - 1) :
              MIN_CHUNK_SIZE <= ChunkLen(chunks[i]) /\ ChunkLen(chunks[i]) <= MAX_CHUNK_SIZE
        /\ 0 <= ChunkLen(chunks[Len(chunks)])
        /\ ChunkLen(chunks[Len(chunks)]) <= MAX_CHUNK_SIZE

\* a remainder of MIN_CHUNK_SIZE - 1 bytes was rebalanced into a non-final chunk
\* shorter than MAX_CHUNK_SIZE
ChunkSizingWitness ==
    /\ mpc = "prepared"
    /\ Len(chunks) >= 2
    /\ BLen(data) % MAX_CHUNK_SIZE = MIN_CHUNK_SIZE - 1
    /\ ChunkLen(chunks[Len(chunks) - 1]) < MAX_CHUNK_SIZE
    /\ ChunkLen(chunks[Len(chunks) - 1]) >= MIN_CHUNK_SIZE

TamperDetection ==
    (mpc = "validated" /\ vcall.kind \in {"tamperPath", "tamperRoot"}) =>
        vcall.res.outcome = "error"

\* the last byte of the leaf record of a three-level path was changed
TamperDetectionWitness ==
    /\ mpc = "validated"
    /\ vcall.kind = "tamperPath"
    /\ vcall.pos = 3 * (2 * HASH_SIZE + NOTE_SIZE) + HASH_SIZE + NOTE_SIZE - 1
    /\ vcall.res.outcome = "error"
    /\ vcall.res.msg = "invalid path"

\* C7: validatePath returns an error value and does not panic, whatever the
\* length of the path.
ValidatePathNeverPanics ==
    mpc = "validated" => vcall.res.outcome # "panic"

----------------------------------------------------------------------------
(* crypto: SHA-384, DeepHash, RSA-PSS.                                     *)

\* sha512.Sum384: a collision-free function to 48 generic bytes
SHA384(x) == << <<"sha384", x, 0, 48>> >>

RECURSIVE StrFrom(_, _)
StrFrom(codes, i) ==
    IF i > Len(codes) THEN <<>> ELSE Cat(Fill(codes[i], 1), StrFrom(codes, i + 1))

\* []byte("...") for a string given by its character codes
Str(codes) == StrFrom(codes, 1)

StrBlob == Str(<<98, 108, 111, 98>>)

StrList == Str(<<108, 105, 115, 116>>)

StrDataitem == Str(<<100, 97, 116, 97, 105, 116, 101, 109>>)

StrOne == Str(<<49>>)

RECURSIVE Sprint(_)
\* []byte(fmt.Sprint(n)) for n >= 0: the decimal digits of n
Sprint(n) ==
    IF n < 10 THEN Fill(48 + n, 1) ELSE Cat(Sprint(n \div 10), Fill(48 + (n % 10), 1))

\* DeepHash of a []byte
DeepHashBlob(b) ==
    LET tagHashed  == SHA384(Cat(StrBlob, Sprint(BLen(b))))
        dataHashed == SHA384(b)
    IN  SHA384(Cat(tagHashed, dataHashed))

RECURSIVE deepHashChunk(_, _, _)
\* deepHashChunk(data[i:], acc)
deepHashChunk(list, i, acc) ==
    IF i > Len(list) THEN acc
    ELSE deepHashChunk(list, i + 1, SHA384(Cat(acc, DeepHashBlob(list[i]))))

\* DeepHash of a list of []byte
DeepHash(list) == deepHashChunk(list, 1, SHA384(Cat(StrList, Sprint(Len(list)))))

\* a Seek that leaves the stream where it is
SeekStartStay(reader) == reader

\* reader.Seek(0, io.SeekStart)
SeekStart(reader) == [reader EXCEPT !.pos = 0]

\* what io.Copy reads from the reader: the bytes from its position to the end
Unread(reader) == Slice(reader.content, reader.pos, BLen(reader.content))

\* the reader after io.Copy: at the end of the stream
Drained(reader) == [reader EXCEPT !.pos = BLen(reader.content)]

\* DeepHashStream(reader, dataSize): the hash; the reader is left drained
DeepHashStream(reader, dataSize) ==
    LET tagHashed  == SHA384(Cat(StrBlob, Sprint(dataSize)))
        dataHashed == SHA384(Unread(reader))
    IN  SHA384(Cat(tagHashed, dataHashed))

\* DeepHashMixed whose list tag counts the chunks without the streamed element
DeepHashMixedChunksOnly(list, streamReader, streamSize) ==
    LET acc == deepHashChunk(list, 1, SHA384(Cat(StrList, Sprint(Len(list)))))
    IN  SHA384(Cat(acc, DeepHashStream(streamReader, streamSize)))

\* DeepHashMixed(chunks, streamReader, streamSize)
DeepHashMixed(list, streamReader, streamSize) ==
    LET acc == deepHashChunk(list, 1, SHA384(Cat(StrList, Sprint(Len(list) + 1))))
    IN  SHA384(Cat(acc, DeepHashStream(streamReader, streamSize)))

\* length in bytes of the modulus and the signatures of a 4096-bit RSA key
KeyBytes == 4096 \div 8

\* PublicKey.N.Bytes() of signer s
Modulus(s) == << <<"key", s, 0, KeyBytes>> >>

\* signer.Owner()
Owner(s) == Base64URLEncode(Modulus(s))

(* crypto.Sign: RSA-PSS over SHA256(data) with the key of signer s and a     *)
(* random salt; the signature is a function of the three.                  *)
cryptoSign(d, s, salt) ==
    << <<"rsa", [key |-> s, salt |-> salt, hashed |-> SHA256(d)], 0, KeyBytes>> >>

(* crypto.Verify: rsa.VerifyPSS accepts exactly the signatures made over    *)
(* the same SHA256(data) with the key whose modulus is n.                  *)
cryptoVerify(d, signature, n) ==
    /\ Len(signature) = 1
    /\ Len(signature[1]) = 4
    /\ signature[1][1] = "rsa"
    /\ signature[1][3] = 0
    /\ signature[1][4] = KeyBytes
    /\ signature[1][2].hashed = SHA256(d)
    /\ Modulus(signature[1][2].key) = n

----------------------------------------------------------------------------
(* tag: the Avro encoding of goavro for an array of {name, value} records. *)

Tag(name, value) == [Name |-> name, Value |-> value]

RECURSIVE VarInt(_)
\* base-128 varint of z >= 0, least significant group first
VarInt(z) ==
    IF z < 128 THEN Fill(z, 1) ELSE Cat(Fill(128 + (z % 128), 1), VarInt(z \div 128))

\* an Avro long n >= 0: the varint of its zigzag code 2n
WriteLong(n) == VarInt(2 * n)

\* an Avro record of two bytes fields
encodeTag(t) ==
    Cat(Cat(Cat(WriteLong(BLen(t.Name)), t.Name), WriteLong(BLen(t.Value))), t.Value)

RECURSIVE encodeTags(_, _, _)
\* the records of tags[lo..hi] one after the other
encodeTags(tags, lo, hi) ==
    IF lo > hi THEN <<>>
    ELSE IF lo = hi THEN encodeTag(tags[lo])
    ELSE LET mid == (lo + hi) \div 2
         IN  Cat(encodeTags(tags, lo, mid), encodeTags(tags, mid + 1, hi))

\* toAvro: one block with the item count, the items, and the closing 0
toAvro(tags) ==
    IF Len(tags) = 0 THEN WriteLong(0)
    ELSE Cat(Cat(WriteLong(Len(tags)), encodeTags(tags, 1, Len(tags))), WriteLong(0))

\* Serialize: nil for no tags
Serialize(tags) == IF Len(tags) > 0 THEN toAvro(tags) ELSE <<>>

LongErr == [err |-> TRUE, value |-> 0, pos |-> 0]

RECURSIVE readVarInt(_, _, _, _)
(* the varint at pos: groups of 7 bits until a byte below 128; z holds the  *)
(* code read so far, IntHuge once it no longer fits the model's integers.  *)
readVarInt(b, pos, k, z) ==
    IF pos >= BLen(b) THEN LongErr
    ELSE LET v  == ByteAt(b, pos)
             g  == v % 128
             z2 == IF g = 0 THEN z
                   ELSE IF k >= 4 \/ z = IntHuge THEN IntHuge
                   ELSE z + g * (128 ^ k)
         IN  IF v < 128
             THEN [err |-> FALSE,
                   value |-> IF z2 = IntHuge
                             THEN (IF ByteAt(b, pos - k) % 2 = 0 THEN IntHuge ELSE 0 - IntHuge)
                             ELSE IF z2 % 2 = 0 THEN z2 \div 2 ELSE 0 - ((z2 + 1) \div 2),
                   pos |-> pos + 1]
             ELSE readVarInt(b, pos + 1, k + 1, z2)

\* an Avro long at pos
ReadLong(b, pos) == readVarInt(b, pos, 0, 0)

BytesErr == [err |-> TRUE, val |-> <<>>, pos |-> 0]

\* the bytes value whose length size was read
readBytesOfSize(b, size) ==
    IF size.err THEN BytesErr
    ELSE IF size.value < 0 THEN BytesErr
    ELSE IF size.value > BLen(b) - size.pos THEN BytesErr
    ELSE [err |-> FALSE, val |-> Slice(b, size.pos, size.pos + size.value),
          pos |-> size.pos + size.value]

\* an Avro bytes value at pos: a length, then that many bytes
ReadBytes(b, pos) == readBytesOfSize(b, ReadLong(b, pos))

TagsErr == [err |-> TRUE, tags |-> <<>>, pos |-> 0]

RECURSIVE readItems(_, _, _, _)
RECURSIVE readItemValue(_, _, _, _)
RECURSIVE readItemEnd(_, _, _, _, _)

\* count records from pos on, appended to acc: the name of the first one is read
readItems(b, pos, count, acc) ==
    IF count = 0 THEN [err |-> FALSE, tags |-> acc, pos |-> pos]
    ELSE readItemValue(b, count, acc, ReadBytes(b, pos))

\* its value is read
readItemValue(b, count, acc, name) ==
    IF name.err THEN TagsErr
    ELSE readItemEnd(b, count, acc, name, ReadBytes(b, name.pos))

\* the record is appended and the next ones are read
readItemEnd(b, count, acc, name, value) ==
    IF value.err THEN TagsErr
    ELSE readItems(b, value.pos, count - 1, Append(acc, Tag(name.val, value.val)))

RECURSIVE readBlocks(_, _, _)
RECURSIVE readBlockSize(_, _, _)
RECURSIVE readBlockItems(_, _, _, _)
RECURSIVE readBlockEnd(_, _)

(* the blocks of an Avro array from pos on: a count (a negative count is   *)
(* followed by a byte size, which is skipped), the items, until a count of *)
(* 0: the count of the first block is read                                 *)
readBlocks(b, pos, acc) == readBlockSize(b, acc, ReadLong(b, pos))

\* the count c was read
readBlockSize(b, acc, c) ==
    IF c.err THEN TagsErr
    ELSE IF c.value = 0 THEN [err |-> FALSE, tags |-> acc, pos |-> c.pos]
    ELSE IF c.value < 0 THEN readBlockItems(b, acc, 0 - c.value, ReadLong(b, c.pos))
    ELSE readBlockItems(b, acc, c.value, [err |-> FALSE, value |-> 0, pos |-> c.pos])

\* the items of a block of count records are read.  A record takes two bytes or
\* more, so a count above half of what is left cannot be read
readBlockItems(b, acc, count, size) ==
    IF size.err THEN TagsErr
    ELSE IF count = IntHuge \/ 2 * count > BLen(b) - size.pos THEN TagsErr
    ELSE readBlockEnd(b, readItems(b, size.pos, count, acc))

\* the next block follows
readBlockEnd(b, items) ==
    IF items.err THEN TagsErr ELSE readBlocks(b, items.pos, items.tags)

\* fromAvro: the tags of an Avro array; bytes after the array are ignored
fromAvro(b) == readBlocks(b, 0, <<>>)

\* binary.LittleEndian.Uint16 of the first two bytes of b
Uint16(b) == ByteAt(b, 0) + 256 * ByteAt(b, 1)

DesOk(tags, tagsEnd) == [outcome |-> "ok", msg |-> "", tags |-> tags, tagsEnd |-> tagsEnd]

DesErr(m, tagsEnd) == [outcome |-> "error", msg |-> m, tags |-> <<>>, tagsEnd |-> tagsEnd]

DesPanic == [outcome |-> "panic", msg |-> "runtime error", tags |-> <<>>, tagsEnd |-> 0]

\* Deserialize, once fromAvro returned r for data[bytesDataStart:bytesDataEnd]
deserializeTags(r, tagsEnd, bytesDataEnd) ==
    IF r.err THEN DesErr("cannot decode binary array", tagsEnd)
    ELSE DesOk(r.tags, bytesDataEnd)

\* Deserialize, once the two header fields were read
deserializeBody(mem, tagsEnd, numberOfTags, numberOfTagBytes) ==
    IF numberOfTags > 127 THEN DesErr("invalid data item - max tags 127", tagsEnd)
    ELSE IF numberOfTags > 0 /\ numberOfTagBytes > 0
    THEN IF tagsEnd + numberOfTagBytes > BLen(mem) THEN DesPanic
         ELSE deserializeTags(fromAvro(Slice(mem, tagsEnd, tagsEnd + numberOfTagBytes)),
                              tagsEnd, tagsEnd + numberOfTagBytes)
    ELSE DesOk(<<>>, tagsEnd)

(* tag.Deserialize(data, startAt).  mem is the backing array of data (cap   *)
(* bytes), n = len(data): an index expression panics from n on, a slice    *)
(* expression from cap on.  numberOfTagBytesEnd, bytesDataStart and        *)
(* tagsEnd are the same offset, startAt + 16.                              *)
Deserialize(mem, n, startAt) ==
    IF startAt >= n THEN DesPanic
    ELSE IF startAt + 8 + 8 > BLen(mem) THEN DesPanic
    ELSE deserializeBody(mem, startAt + 8 + 8, ByteAt(mem, startAt),
                         Uint16(Slice(mem, startAt + 8, startAt + 8 + 8)))

----------------------------------------------------------------------------
(* transaction/data_item                                                   *)

MAX_TAGS == 128

MAX_TAG_KEY_LENGTH == 1024

MAX_TAG_VALUE_LENGTH == 3072

\* SignatureConfig: the signature and public key lengths of the registered types
SignatureConfig ==
    [t \in 1..4 |->
        CASE t = 1 -> [SignatureLength |-> 512, PublicKeyLength |-> 512]
          [] t = 2 -> [SignatureLength |-> 64,  PublicKeyLength |-> 32]
          [] t = 3 -> [SignatureLength |-> 65,  PublicKeyLength |-> 65]
          [] t = 4 -> [SignatureLength |-> 64,  PublicKeyLength |-> 32]]

\* New(rawData, target, anchor, tags)
New(rawData, target, anchor, tags) ==
    [NilItem EXCEPT !.Target = target, !.Anchor = anchor, !.Tags = tags,
                    !.Data = Base64URLEncode(rawData)]

\* NewFromReader(dataReader, dataSize, target, anchor, tags)
NewFromReader(dataReader, dataSize, target, anchor, tags) ==
    [NilItem EXCEPT !.Target = target, !.Anchor = anchor, !.Tags = tags,
                    !.DataReader = dataReader, !.DataSize = dataSize]

\* d.GetDataSize(): the size of the payload of d
GetDataSize(d) ==
    IF d.DataSize > 0 THEN d.DataSize
    ELSE IF Base64URLDecodeErr(d.Data) THEN 0
    ELSE BLen(Base64URLDecode(d.Data))

\* the item whose Raw is the whole binary that GetRawWithData put together
combineHeaderWithStreamedDataKept(d, result) == [d EXCEPT !.Raw = result]

\* the item d after combineHeaderWithStreamedData put `result` together from
\* d.Raw and the stream: result is a buffer of its own, d.Raw stays the header
combineHeaderWithStreamedData(d, result) == d

\* d.DataReader != nil && d.DataSize > 0
isStreaming(d) == ~d.DataReader.nil /\ d.DataSize > 0

ChunkErr(reader) == [err |-> TRUE, hash |-> <<>>, reader |-> reader]

\* getDataItemChunkStreaming without the Seek to the start of the stream
getDataItemChunkStreamingNoSeek(d, rawOwner, rawTarget, rawAnchor, rawTags) ==
    LET list == <<StrDataitem, StrOne, StrOne, rawOwner, rawTarget, rawAnchor, rawTags>>
    IN  [err |-> FALSE,
         hash |-> DeepHashMixed(list, d.DataReader, d.DataSize),
         reader |-> Drained(d.DataReader)]

\* getDataItemChunkStreaming: the hash, and the reader as the call leaves it
getDataItemChunkStreaming(d, rawOwner, rawTarget, rawAnchor, rawTags) ==
    LET list   == <<StrDataitem, StrOne, StrOne, rawOwner, rawTarget, rawAnchor, rawTags>>
        reader == SeekStart(d.DataReader)
    IN  [err |-> FALSE,
         hash |-> DeepHashMixed(list, reader, d.DataSize),
         reader |-> Drained(reader)]

\* getDataItemChunk: the deep hash that is signed and verified
getDataItemChunk(d) ==
    IF Base64URLDecodeErr(d.Owner) THEN ChunkErr(d.DataReader)
    ELSE IF Base64URLDecodeErr(d.Target) THEN ChunkErr(d.DataReader)
    ELSE LET rawOwner  == Base64URLDecode(d.Owner)
             rawTarget == Base64URLDecode(d.Target)
             rawAnchor == d.Anchor
             rawTags   == Serialize(d.Tags)
         IN  IF isStreaming(d)
             THEN getDataItemChunkStreaming(d, rawOwner, rawTarget, rawAnchor, rawTags)
             ELSE IF d.Data # EmptyString /\ Base64URLDecodeErr(d.Data)
             THEN ChunkErr(d.DataReader)
             ELSE LET rawData == IF d.Data # EmptyString THEN Base64URLDecode(d.Data)
                                 ELSE <<>>
                  IN  [err |-> FALSE,
                       hash |-> DeepHash(<<StrDataitem, StrOne, StrOne, rawOwner, rawTarget,
                                           rawAnchor, rawTags, rawData>>),
                       reader |-> d.DataReader]

\* an 8-byte field whose first two bytes are uint16(n), little endian
PutUint16(n) ==
    LET m == n % 65536
    IN  Cat(Cat(Fill(m % 256, 1), Fill(m \div 256, 1)), Fill(0, 6))

\* buildHeaderOnly: everything of Raw but the payload
buildHeaderOnly(d, rawSignature, rawOwner, rawTarget, rawAnchor, rawTags) ==
    LET sigType    == Cat(Fill(1, 1), Fill(0, 1))
        targetFlag == IF d.Target = EmptyString THEN Fill(0, 1) ELSE Fill(1, 1)
        anchorFlag == IF d.Anchor = <<>> THEN Fill(0, 1) ELSE Fill(1, 1)
        r1 == Cat(Cat(sigType, rawSignature), rawOwner)
        r2 == Cat(Cat(r1, targetFlag), rawTarget)
        r3 == Cat(Cat(r2, anchorFlag), rawAnchor)
        r4 == Cat(Cat(r3, PutUint16(Len(d.Tags))), PutUint16(BLen(rawTags)))
    IN  Cat(r4, rawTags)

(* d.Sign(s) with the salt the signature draws.  For an in-memory item Raw  *)
(* is built by the same appends as buildHeaderOnly, then the payload.      *)
Sign(d, s, salt) ==
    LET d1 == [d EXCEPT !.Owner = Owner(s)]
        ch == getDataItemChunk(d1)
        d2 == [d1 EXCEPT !.DataReader = ch.reader]
    IN  IF ch.err THEN [err |-> "illegal base64 data", item |-> d2]
        ELSE LET rawSignature == cryptoSign(ch.hash, s, salt)
                 rawOwner     == Base64URLDecode(Owner(s))
                 rawTarget    == Base64URLDecode(d.Target)
                 rawAnchor    == d.Anchor
                 rawTags      == Serialize(d.Tags)
                 rawData      == IF isStreaming(d) \/ d.Data = EmptyString THEN <<>>
                                 ELSE Base64URLDecode(d.Data)
                 header       == buildHeaderOnly(d, rawSignature, rawOwner, rawTarget,
                                                 rawAnchor, rawTags)
                 rawID        == SHA256(rawSignature)
             IN  [err |-> "nil",
                  item |-> [d2 EXCEPT !.Signature = Base64URLEncode(rawSignature),
                                      !.ID = Base64URLEncode(rawID),
                                      !.Raw = Cat(header, rawData)]]

\* the check Verify makes on one tag, without the check of the value
tagErrorNameOnly(t) ==
    IF BLen(t.Name) = 0 \/ BLen(t.Name) > MAX_TAG_KEY_LENGTH
    THEN "invalid data item - tag key too long"
    ELSE "nil"

\* the check Verify makes on one tag
tagError(t) ==
    IF BLen(t.Name) = 0 \/ BLen(t.Name) > MAX_TAG_KEY_LENGTH
    THEN "invalid data item - tag key too long"
    ELSE IF BLen(t.Value) = 0 \/ BLen(t.Value) > MAX_TAG_VALUE_LENGTH
    THEN "invalid data item - tag value too long"
    ELSE "nil"

\* the error of the first tag that fails its check, "nil" when none does
tagsError(tags) ==
    LET bad == {i \in 1..Len(tags) : tagError(tags[i]) # "nil"}
    IN  IF bad = {} THEN "nil"
        ELSE tagError(tags[CHOOSE i \in bad : \A j \in bad : i <= j])

\* d.Verify(): the error it returns, and the reader as the call leaves it
Verify(d) ==
    IF Base64URLDecodeErr(d.Signature)
    THEN [err |-> "illegal base64 data", reader |-> d.DataReader]
    ELSE LET rawSignature == Base64URLDecode(d.Signature)
             id           == Base64URLEncode(SHA256(rawSignature))
         IN  IF id # d.ID
             THEN [err |-> "invalid data item - signature and id don't match",
                   reader |-> d.DataReader]
             ELSE LET ch == getDataItemChunk(d)
                  IN  IF ch.err THEN [err |-> "illegal base64 data", reader |-> ch.reader]
                      ELSE IF ~cryptoVerify(ch.hash, rawSignature, Base64URLDecode(d.Owner))
                      THEN [err |-> "crypto/rsa: verification error", reader |-> ch.reader]
                      ELSE IF Len(d.Tags) > MAX_TAGS
                      THEN [err |-> "invalid data item - tags cannot be more than 128",
                            reader |-> ch.reader]
                      ELSE IF tagsError(d.Tags) # "nil"
                      THEN [err |-> tagsError(d.Tags), reader |-> ch.reader]
                      ELSE IF BLen(d.Anchor) > 32
                      THEN [err |-> "invalid data item - anchor should be 32 bytes",
                            reader |-> ch.reader]
                      ELSE [err |-> "nil", reader |-> ch.reader]

FieldPanic == [panic |-> TRUE, val |-> <<>>, position |-> 0]

(* getTarget / getAnchor read the same way: the flag byte at position, and  *)
(* when it is 1 the 32 bytes after it.  mem and n as in Deserialize.       *)
getField(mem, n, position) ==
    IF position >= n THEN FieldPanic
    ELSE IF ByteAt(mem, position) = 1
    THEN IF position + 1 + 32 > BLen(mem) THEN FieldPanic
         ELSE [panic |-> FALSE, val |-> Slice(mem, position + 1, position + 1 + 32),
               position |-> position + 32 + 1]
    ELSE [panic |-> FALSE, val |-> <<>>, position |-> position + 1]

\* getTarget: the field, base64url encoded
getTarget(mem, n, position) ==
    LET f == getField(mem, n, position)
    IN  [panic |-> f.panic, val |-> Base64URLEncode(f.val), position |-> f.position]

\* getAnchor: the field as a string
getAnchor(mem, n, position) == getField(mem, n, position)

DecOk(d) == [outcome |-> "ok", msg |-> "", item |-> d]

DecErr(m) == [outcome |-> "error", msg |-> m, item |-> NilItem]

DecPanic == [outcome |-> "panic", msg |-> "runtime error", item |-> NilItem]

\* Decode, once tag.Deserialize returned t
decodeData(raw, mem, signatureType, target, anchor, t) ==
    IF t.outcome = "panic" THEN DecPanic
    ELSE IF t.outcome = "error" THEN DecErr(t.msg)
    ELSE IF t.tagsEnd > BLen(raw) THEN DecPanic
    ELSE DecOk(
        [NilItem EXCEPT
            !.ID = Base64URLEncode(SHA256(
                       Slice(mem, 2, 2 + SignatureConfig[signatureType].SignatureLength))),
            !.SignatureType = signatureType,
            !.Signature = Base64URLEncode(
                       Slice(mem, 2, 2 + SignatureConfig[signatureType].SignatureLength)),
            !.Owner = Base64URLEncode(
                       Slice(mem, 2 + SignatureConfig[signatureType].SignatureLength,
                             2 + SignatureConfig[signatureType].SignatureLength
                               + SignatureConfig[signatureType].PublicKeyLength)),
            !.Target = target.val,
            !.Anchor = anchor.val,
            !.Tags = t.tags,
            !.Data = Base64URLEncode(Slice(raw, t.tagsEnd, BLen(raw))),
            !.Raw = raw])

\* Decode, once getAnchor returned anchor
decodeTags(raw, mem, signatureType, target, anchor) ==
    IF anchor.panic THEN DecPanic
    ELSE decodeData(raw, mem, signatureType, target, anchor,
                    Deserialize(mem, BLen(raw), anchor.position))

\* Decode, once getTarget returned target
decodeAnchor(raw, mem, signatureType, target) ==
    IF target.panic THEN DecPanic
    ELSE decodeTags(raw, mem, signatureType, target,
                    getAnchor(mem, BLen(raw), target.position))

\* Decode, once the signature type is known to be registered: the slice
\* expressions for the signature and the owner, then getTarget at ownerEnd
decodeTarget(raw, mem, signatureType) ==
    IF 2 + SignatureConfig[signatureType].SignatureLength
         + SignatureConfig[signatureType].PublicKeyLength > BLen(mem)
    THEN DecPanic
    ELSE decodeAnchor(raw, mem, signatureType,
                      getTarget(mem, BLen(raw),
                                2 + SignatureConfig[signatureType].SignatureLength
                                  + SignatureConfig[signatureType].PublicKeyLength))

\* Decode, once len(raw) >= 2 is known: getSignatureMetadata
decodeSignatureType(raw, mem, signatureType) ==
    IF signatureType \notin DOMAIN SignatureConfig
    THEN DecErr("unsupported signature type")
    ELSE decodeTarget(raw, mem, signatureType)

(* Decode(raw) for a slice raw of length BLen(raw) and capacity cap, whose   *)
(* backing array mem holds zero bytes after the slice.                     *)
Decode(raw, cap) ==
    IF BLen(raw) < 2 THEN DecErr("binary too small")
    ELSE decodeSignatureType(raw, Cat(raw, Fill(0, cap - BLen(raw))),
                             Uint16(Slice(raw, 0, 2)))

----------------------------------------------------------------------------
(* Items, signers and buffers of the data item specification.              *)

\* length of the longer payload of a data item
PayloadLen == 40

\* number of signers
NumSigners == 2

\* number of salts a signature may draw
NumSalts == 1

\* spare capacity a slice handed to Decode may have
RawSlack == 4096

Signers == 1..NumSigners

Salts == 1..NumSalts

ItemPayloads == {<<>>, Fill(7, PayloadLen)}

\* no target, a 32-byte target, the same with stray bits in its last character,
\* and a string that is not base64url
Targets ==
    {EmptyString, Base64URLEncode(Fill(9, 32)),
     [valid |-> TRUE, raw |-> Fill(9, 32), pad |-> 1],
     [valid |-> FALSE, raw |-> <<>>, pad |-> 0]}

Anchors == {Fill(97, n) : n \in {0, 1, 32, 33}}

Rep(k, t) == [i \in 1..k |-> t]

SmallTag == Tag(Fill(2, 1), Fill(2, 1))

\* lists of one or two tags, with names and values at and around their limits
TagLists ==
    {<<>>, <<SmallTag>>, <<Tag(Fill(110, 4), Fill(118, 5)), SmallTag>>}
    \cup {<<Tag(Fill(110, ab[1]), Fill(118, ab[2]))>> :
             ab \in {<<0, 1>>, <<MAX_TAG_KEY_LENGTH, 1>>, <<MAX_TAG_KEY_LENGTH + 1, 1>>,
                     <<1, 0>>, <<1, MAX_TAG_VALUE_LENGTH>>, <<1, MAX_TAG_VALUE_LENGTH + 1>>,
                     <<MAX_TAG_KEY_LENGTH, MAX_TAG_VALUE_LENGTH>>,
                     <<MAX_TAG_KEY_LENGTH + 1, MAX_TAG_VALUE_LENGTH + 1>>}}
    \cup {<<Tag(Fill(110, 1), Fill(118, 0)), Tag(Fill(110, 0), Fill(118, 1))>>}

\* lists of many tags: around the limit on their number, and 16 tags of the
\* greatest size, which serialize to more than 65535 bytes
LongTagLists ==
    {Rep(k, SmallTag) : k \in {MAX_TAGS - 1, MAX_TAGS, MAX_TAGS + 1}}
    \cup {Rep(16, Tag(Fill(16, MAX_TAG_KEY_LENGTH), Fill(48, MAX_TAG_VALUE_LENGTH)))}

\* the target, anchor and tags an item is made with
ItemArgs ==
    {<<target, anchor, tags>> : target \in Targets, anchor \in Anchors, tags \in TagLists}
    \cup {<<EmptyString, <<>>, tags>> : tags \in LongTagLists}
    \cup {<<Base64URLEncode(Fill(9, 32)), Fill(97, n), tags>> :
              n \in {32, 33}, tags \in LongTagLists}

\* a stream over content, positioned at pos
Reader(content, pos) == [nil |-> FALSE, content |-> content, pos |-> pos]

\* signature type t and signature and owner bytes of the lengths it registers
BufferHead(t) ==
    Cat(Cat(Fill(t, 1), Fill(0, 1)),
        Fill(5, SignatureConfig[t].SignatureLength + SignatureConfig[t].PublicKeyLength))

\* what may follow the owner in a buffer handed to Decode
BufferTails ==
    LET av == toAvro(<<SmallTag>>)
        tg == Cat(Fill(1, 1), Fill(9, 32))
        an == Cat(Fill(1, 1), Fill(97, 32))
    IN  {<<>>,
         Cat(Fill(1, 1), Fill(9, 10)),
         Cat(Fill(0, 1), Cat(Fill(1, 1), Fill(97, 31))),
         Fill(0, 2),
         Fill(0, 2 + 16),
         Cat(Cat(Cat(Fill(0, 2), PutUint16(1)), PutUint16(200)), Fill(2, 3)),
         Cat(Cat(Cat(Cat(Fill(0, 2), PutUint16(1)), PutUint16(BLen(av))), av), Fill(7, 3)),
         Cat(Cat(Fill(0, 2), PutUint16(MAX_TAGS)), PutUint16(0)),
         Cat(Cat(Cat(tg, an), Fill(0, 16)), Fill(7, 3)),
         Cat(Cat(tg, Fill(0, 1)), Fill(0, 16))}

\* the buffers handed to Decode: too short for the signature and the owner, or a
\* head and a tail, or an unregistered signature type
Buffers ==
    UNION {{Slice(BufferHead(t), 0, k) :
               k \in {0, 1, 2, 2 + SignatureConfig[t].SignatureLength}} : t \in {1, 2}}
    \cup {Cat(BufferHead(t), tail) : t \in {1, 2}, tail \in BufferTails}
    \cup {Cat(Cat(Fill(t, 1), Fill(0, 1)), Fill(0, 2000)) : t \in {0, 5}}

ItemInit ==
    /\ data = <<>>
    /\ chunks = <<>>
    /\ txChunks = [DataRoot |-> EmptyString, Chunks |-> <<>>, Proofs |-> <<>>]
    /\ vcall = NoCall
    /\ mpc = "idle"
    /\ item = NilItem
    /\ serr = "unset"
    /\ verr = "unset"
    /\ dec = NoDecode
    /\ ipc = "start"
    /\ StreamIdle
    /\ BundleIdle
    /\ TxIdle
    /\ UploaderIdle

\* d := New(rawData, target, anchor, tags)
NewItem ==
    /\ ipc = "start"
    /\ \E rawData \in ItemPayloads, args \in ItemArgs :
          item' = New(rawData, args[1], args[2], args[3])
    /\ ipc' = "new"
    /\ UNCHANGED <<serr, verr, dec>>
    /\ UNCHANGED <<merkleVars, streamVars, bundleVars, txVars, uploaderVars>>

\* d := NewFromReader(reader, size, target, anchor, tags) with the true size of
\* the stream; the reader is at its start or at its end
NewItemFromReader ==
    /\ ipc = "start"
    /\ \E content \in ItemPayloads, args \in ItemArgs :
       \E pos \in {0, BLen(content)} :
          item' = NewFromReader(Reader(content, pos), BLen(content), args[1], args[2],
                                args[3])
    /\ ipc' = "new"
    /\ UNCHANGED <<serr, verr, dec>>
    /\ UNCHANGED <<merkleVars, streamVars, bundleVars, txVars, uploaderVars>>

\* d.Sign(s)
SignItem ==
    /\ ipc = "new"
    /\ \E s \in Signers, salt \in Salts :
          LET r == Sign(item, s, salt)
          IN  /\ item' = r.item
              /\ serr' = r.err
    /\ ipc' = "signed"
    /\ UNCHANGED <<verr, dec>>
    /\ UNCHANGED <<merkleVars, streamVars, bundleVars, txVars, uploaderVars>>

\* d.Verify() right after a Sign that succeeded
VerifyItem ==
    /\ ipc = "signed"
    /\ serr = "nil"
    /\ LET r == Verify(item)
       IN  /\ verr' = r.err
           /\ item' = [item EXCEPT !.DataReader = r.reader]
    /\ ipc' = "verified"
    /\ UNCHANGED <<serr, dec>>
    /\ UNCHANGED <<merkleVars, streamVars, bundleVars, txVars, uploaderVars>>

\* Decode(d.Raw) after Verify; the appends of Sign left Raw some spare capacity
DecodeRaw ==
    /\ ipc = "verified"
    /\ \E slack \in {0, RawSlack} :
          dec' = [kind |-> "raw", raw |-> item.Raw, cap |-> BLen(item.Raw) + slack,
                  res |-> Decode(item.Raw, BLen(item.Raw) + slack)]
    /\ ipc' = "decoded"
    /\ UNCHANGED <<item, serr, verr>>
    /\ UNCHANGED <<merkleVars, streamVars, bundleVars, txVars, uploaderVars>>

\* Decode(buffer) for a buffer from anywhere
DecodeBuffer ==
    /\ ipc = "start"
    /\ \E raw \in Buffers, slack \in {0, RawSlack} :
          dec' = [kind |-> "buffer", raw |-> raw, cap |-> BLen(raw) + slack,
                  res |-> Decode(raw, BLen(raw) + slack)]
    /\ ipc' = "decoded"
    /\ UNCHANGED <<item, serr, verr>>
    /\ UNCHANGED <<merkleVars, streamVars, bundleVars, txVars, uploaderVars>>

ItemNext ==
    \/ NewItem
    \/ NewItemFromReader
    \/ SignItem
    \/ VerifyItem
    \/ DecodeRaw
    \/ DecodeBuffer

ItemSpec == ItemInit /\ [][ItemNext]_vars

----------------------------------------------------------------------------
(* Properties of the data item codec.                                      *)

\* the structural limits of a data item: at most 128 tags, names of 1 to 1024
\* bytes, values of 1 to 3072 bytes, an anchor of at most 32 bytes
WithinLimits(d) ==
    /\ Len(d.Tags) <= 128
    /\ \A i \in 1..Len(d.Tags) :
          /\ 1 <= BLen(d.Tags[i].Name) /\ BLen(d.Tags[i].Name) <= 1024
          /\ 1 <= BLen(d.Tags[i].Value) /\ BLen(d.Tags[i].Value) <= 3072
    /\ BLen(d.Anchor) <= 32

ValidationErrors ==
    {"invalid data item - tags cannot be more than 128",
     "invalid data item - tag key too long",
     "invalid data item - tag value too long",
     "invalid data item - anchor should be 32 bytes"}

\* C2: for a data item d that was signed with Sign and passes Verify, Decode(d.Raw)
\* returns an item with the same ID, Signature, Owner, Target, Anchor, Tags and
\* Data as d.
DataItemRoundTrip ==
    (ipc = "decoded" /\ dec.kind = "raw" /\ serr = "nil" /\ verr = "nil") =>
        /\ dec.res.outcome = "ok"
        /\ dec.res.item.ID = item.ID
        /\ dec.res.item.Signature = item.Signature
        /\ dec.res.item.Owner = item.Owner
        /\ dec.res.item.Target = item.Target
        /\ dec.res.item.Anchor = item.Anchor
        /\ dec.res.item.Tags = item.Tags
        /\ dec.res.item.Data = item.Data

\* C8: Decode returns an error and does not panic, whatever the buffer.
DecodeNeverPanics ==
    ipc = "decoded" => dec.res.outcome # "panic"

\* C9: after a successful Sign(s) the item's Owner is the public key of s and its
\* ID is base64url(SHA256(signature)); for an item within the structural limits,
\* made by New or by NewFromReader with the true size of its stream, the Verify
\* that follows returns nil.
SignThenVerify ==
    /\ (ipc \in {"signed", "verified"} /\ serr = "nil") =>
          /\ \E s \in Signers :
                /\ item.Owner = Base64URLEncode(Modulus(s))
                /\ Base64URLDecode(item.Signature)[1][2].key = s
          /\ item.ID = Base64URLEncode(SHA256(Base64URLDecode(item.Signature)))
    /\ (ipc = "verified" /\ WithinLimits(item)) => verr = "nil"

\* a streamed item with 128 tags, a target and a 32-byte anchor, whose reader was
\* at its end when the item was made, was signed and verified
SignThenVerifyWitness ==
    /\ ipc = "verified"
    /\ verr = "nil"
    /\ isStreaming(item)
    /\ item.DataReader.pos = BLen(item.DataReader.content)
    /\ Len(item.Tags) = 128
    /\ BLen(item.Anchor) = 32
    /\ item.Target # EmptyString

\* C10: for an item whose ID matches its signature and whose signature is valid,
\* Verify returns a validation error if and only if the item is outside the
\* structural limits; with 129 tags it is the tag-count error.
VerifyStructuralLimits ==
    ipc = "verified" =>
        /\ (verr # "nil") <=> ~WithinLimits(item)
        /\ ~WithinLimits(item) => verr \in ValidationErrors
        /\ Len(item.Tags) = 129 =>
              verr = "invalid data item - tags cannot be more than 128"

\* Verify rejected a validly signed item of 129 tags
VerifyStructuralLimitsWitness ==
    /\ ipc = "verified"
    /\ Len(item.Tags) = 129
    /\ BLen(item.Anchor) = 33
    /\ verr = "invalid data item - tags cannot be more than 128"

\* the chunks that precede the payload in the deep hash of data item d
headChunks(d) ==
    <<StrDataitem, StrOne, StrOne, Base64URLDecode(d.Owner), Base64URLDecode(d.Target),
      d.Anchor, Serialize(d.Tags)>>

\* the in-memory data item with the owner, target, anchor and tags of d and the
\* payload b
inMemoryTwin(d, b) == [New(b, d.Target, d.Anchor, d.Tags) EXCEPT !.Owner = d.Owner]

\* C11: for the chunks that precede the payload of a streamed data item, and for
\* every prefix of them, DeepHashMixed(chunks, reader over b, len(b)) equals
\* DeepHash(chunks followed by b); the digest that Sign signed for the streamed
\* item is the digest of the in-memory item with the same owner, target, anchor,
\* tags and payload.
StreamingDigestEquivalence ==
    (ipc \in {"signed", "verified"} /\ serr = "nil" /\ isStreaming(item)) =>
        LET b == item.DataReader.content
        IN  /\ \A k \in 0..Len(headChunks(item)) :
                  DeepHashMixed(SubSeq(headChunks(item), 1, k), Reader(b, 0), BLen(b))
                      = DeepHash(Append(SubSeq(headChunks(item), 1, k), b))
            /\ Base64URLDecode(item.Signature)[1][2].hashed
                  = SHA256(getDataItemChunk(inMemoryTwin(item, b)).hash)

\* a streamed item with a payload, a target, an anchor and tags was signed
StreamingDigestEquivalenceWitness ==
    /\ ipc = "signed"
    /\ serr = "nil"
    /\ isStreaming(item)
    /\ BLen(item.DataReader.content) = PayloadLen
    /\ item.Target # EmptyString
    /\ BLen(item.Anchor) = 32
    /\ Len(item.Tags) = 2

----------------------------------------------------------------------------
(* Passes over streamed data items.  Two goroutines hold a streamed data   *)
(* item each, over one stream handle or over two handles on equal data.    *)
(* A pass (Sign, Verify, GetRawWithData, WriteRawTo) seeks its handle to   *)
(* the start, reads it to the end in buffers of chunkSize bytes, and then  *)
(* computes its result from the bytes its reads returned.  The seek, each  *)
(* read and the end of the pass are one step each.                         *)

\* the read buffer of combineHeaderWithStreamedData, and of io.Copy
chunkSize == 32768

\* bytes a long stream has after its first chunkSize bytes
StreamTail == 10

\* passes goroutine 1 makes in one run; goroutine 2 makes one
MaxPasses == 2

Procs == {1, 2}

\* the handle the item of goroutine p was made over
handleOfOne(p) == 1

handleOf(p) == IF shared THEN 1 ELSE p

\* the other goroutine is in a pass on the handle of p
Overlaps(p) ==
    \E q \in Procs : q # p /\ handleOf(q) = handleOf(p) /\ pass[q].pc = "reading"

\* GetDataSize has not been called since the last pass began
NoSize == 0 - 1

\* no pass yet; n counts the passes the goroutine has started, size is what
\* GetDataSize returned after the last pass
NoPass == [kind |-> "none", pc |-> "idle", read |-> <<>>, err |-> "unset", out |-> <<>>,
           dec |-> NoDecode, n |-> 0, size |-> NoSize]

\* the passes goroutine p may make
PassesOf(p) == IF p = 1 THEN MaxPasses ELSE 1

\* a short stream, and one of more than one read buffer whose parts differ
StreamPayloads == {Fill(7, PayloadLen), Cat(Fill(1, chunkSize), Fill(2, StreamTail))}

\* target, anchor and tags of the streamed items
StreamItemArgs ==
    {<<EmptyString, <<>>, <<>> >>,
     <<Base64URLEncode(Fill(9, 32)), Fill(97, 32), <<SmallTag>> >>,
     <<EmptyString, Fill(97, 1), <<>> >>}

\* nothing is put out before the first read
headerPutNothing(d) == <<>>

\* what GetRawWithData and WriteRawTo put out before the first read: d.Raw
headerPut(d) == d.Raw

\* the passes that put out what they read
Materializes(kind) == kind \in {"GetRawWithData", "WriteRawTo"}

\* the item with a reader that yields exactly the bytes the pass has read
withRead(d, read) == [d EXCEPT !.DataReader = Reader(read, 0)]

StreamInit ==
    /\ MerkleIdle
    /\ item = NilItem
    /\ serr = "unset"
    /\ verr = "unset"
    /\ dec = NoDecode
    /\ ipc = "idle"
    /\ BundleIdle
    /\ TxIdle
    /\ UploaderIdle
    /\ shared \in BOOLEAN
    /\ \E content \in StreamPayloads, args \in StreamItemArgs :
       \E pos \in {0, BLen(content)} :
          /\ rd = [h \in Procs |-> Reader(content, pos)]
          /\ sitem = [q \in Procs |->
                        NewFromReader(Reader(content, 0), BLen(content), args[1], args[2],
                                      args[3])]
    /\ pass = [q \in Procs |-> NoPass]
    /\ raced = FALSE

\* goroutine p may start a pass
MayStart(p) ==
    /\ pass[p].n < PassesOf(p)
    /\ pass[p].pc \in {"idle", "done"}
    /\ pass[p].pc = "done" => pass[p].err = "nil"

\* the seek of a pass of the given kind by p, after which `out` has been put out
Seek(p, kind, out) ==
    /\ rd' = [rd EXCEPT ![handleOf(p)] = SeekStart(@)]
    /\ pass' = [pass EXCEPT ![p] = [NoPass EXCEPT !.kind = kind, !.pc = "reading",
                                                  !.out = out, !.n = pass[p].n + 1]]
    /\ raced' = (raced \/ Overlaps(p))

\* d.Sign(s) up to reader.Seek: the owner is set, the small chunks are decoded
SignSeek(p) ==
    /\ MayStart(p)
    /\ sitem[p].Signature = EmptyString
    /\ sitem' = [sitem EXCEPT ![p].Owner = Owner(p)]
    /\ Seek(p, "Sign", <<>>)
    /\ UNCHANGED shared

\* d.Verify() up to reader.Seek
VerifySeek(p) ==
    /\ MayStart(p)
    /\ sitem[p].Signature # EmptyString
    /\ Seek(p, "Verify", <<>>)
    /\ UNCHANGED <<shared, sitem>>

\* d.GetRawWithData() up to the first Read: the header is in the result
GetRawWithDataSeek(p) ==
    /\ MayStart(p)
    /\ sitem[p].Signature # EmptyString
    /\ Seek(p, "GetRawWithData", headerPut(sitem[p]))
    /\ UNCHANGED <<shared, sitem>>

\* d.WriteRawTo(w) up to io.Copy: the header is written
WriteRawToSeek(p) ==
    /\ MayStart(p)
    /\ sitem[p].Signature # EmptyString
    /\ Seek(p, "WriteRawTo", headerPut(sitem[p]))
    /\ UNCHANGED <<shared, sitem>>

\* one Read that returns bytes: up to chunkSize of them, from the position on
StreamRead(p) ==
    /\ pass[p].pc = "reading"
    /\ rd[handleOf(p)].pos < BLen(rd[handleOf(p)].content)
    /\ LET r == rd[handleOf(p)]
           n == Min2(chunkSize, BLen(r.content) - r.pos)
       IN  /\ rd' = [rd EXCEPT ![handleOf(p)].pos = r.pos + n]
           /\ pass' = [pass EXCEPT ![p].read = Cat(@, Slice(r.content, r.pos, r.pos + n)),
                                   ![p].out = IF Materializes(pass[p].kind)
                                              THEN Cat(@, Slice(r.content, r.pos, r.pos + n))
                                              ELSE @]
    /\ raced' = (raced \/ Overlaps(p))
    /\ UNCHANGED <<shared, sitem>>

\* the Read that returns io.EOF
AtEOF(p, kind) ==
    /\ pass[p].pc = "reading"
    /\ pass[p].kind = kind
    /\ rd[handleOf(p)].pos = BLen(rd[handleOf(p)].content)

\* the rest of d.Sign(s), for signer p and the first salt: the signature over the
\* digest of what was read, and the header in Raw
SignEnd(p) ==
    /\ AtEOF(p, "Sign")
    /\ LET r == Sign(withRead(sitem[p], pass[p].read), p, 1)
       IN  /\ sitem' = [sitem EXCEPT ![p] = [r.item EXCEPT
                                                !.DataReader = sitem[p].DataReader]]
           /\ pass' = [pass EXCEPT ![p].pc = "done", ![p].err = r.err]
    /\ raced' = (raced \/ Overlaps(p))
    /\ UNCHANGED <<shared, rd>>

\* the rest of d.Verify()
VerifyEnd(p) ==
    /\ AtEOF(p, "Verify")
    /\ pass' = [pass EXCEPT ![p].pc = "done",
                            ![p].err = Verify(withRead(sitem[p], pass[p].read)).err]
    /\ raced' = (raced \/ Overlaps(p))
    /\ UNCHANGED <<shared, rd, sitem>>

\* GetRawWithData returns the result
GetRawWithDataEnd(p) ==
    /\ AtEOF(p, "GetRawWithData")
    /\ pass' = [pass EXCEPT ![p].pc = "done", ![p].err = "nil"]
    /\ sitem' = [sitem EXCEPT ![p] = combineHeaderWithStreamedData(@, pass[p].out)]
    /\ raced' = (raced \/ Overlaps(p))
    /\ UNCHANGED <<shared, rd>>

\* WriteRawTo returns nil
WriteRawToEnd(p) ==
    /\ AtEOF(p, "WriteRawTo")
    /\ pass' = [pass EXCEPT ![p].pc = "done", ![p].err = "nil"]
    /\ raced' = (raced \/ Overlaps(p))
    /\ UNCHANGED <<shared, rd, sitem>>

\* d.GetDataSize() on the signed item by p between two of its passes
GetDataSizeCall(p) ==
    /\ pass[p].pc = "done"
    /\ sitem[p].Signature # EmptyString
    /\ pass[p].size = NoSize
    /\ pass' = [pass EXCEPT ![p].size = GetDataSize(sitem[p])]
    /\ UNCHANGED <<shared, rd, sitem, raced>>

\* Decode of what GetRawWithData returned, or of what WriteRawTo wrote to a
\* buffer, which may have spare capacity
DecodeMaterialized(p) ==
    /\ pass[p].pc = "done"
    /\ Materializes(pass[p].kind)
    /\ pass[p].dec = NoDecode
    /\ \E slack \in IF pass[p].kind = "WriteRawTo" THEN {0, RawSlack} ELSE {0} :
          pass' = [pass EXCEPT ![p].dec =
                      [kind |-> "raw", raw |-> pass[p].out, cap |-> BLen(pass[p].out) + slack,
                       res |-> Decode(pass[p].out, BLen(pass[p].out) + slack)]]
    /\ UNCHANGED <<shared, rd, sitem, raced>>

StreamIdleOthers == UNCHANGED <<merkleVars, itemVars, bundleVars, txVars, uploaderVars>>

StreamNext ==
    \/ \E p \in Procs : SignSeek(p) /\ StreamIdleOthers
    \/ \E p \in Procs : VerifySeek(p) /\ StreamIdleOthers
    \/ \E p \in Procs : GetRawWithDataSeek(p) /\ StreamIdleOthers
    \/ \E p \in Procs : WriteRawToSeek(p) /\ StreamIdleOthers
    \/ \E p \in Procs : StreamRead(p) /\ StreamIdleOthers
    \/ \E p \in Procs : SignEnd(p) /\ StreamIdleOthers
    \/ \E p \in Procs : VerifyEnd(p) /\ StreamIdleOthers
    \/ \E p \in Procs : GetRawWithDataEnd(p) /\ StreamIdleOthers
    \/ \E p \in Procs : WriteRawToEnd(p) /\ StreamIdleOthers
    \/ \E p \in Procs : GetDataSizeCall(p) /\ StreamIdleOthers
    \/ \E p \in Procs : DecodeMaterialized(p) /\ StreamIdleOthers

StreamSpec == StreamInit /\ [][StreamNext]_vars

----------------------------------------------------------------------------
(* Properties of the passes over streamed data items.                      *)

\* the payload of the item of goroutine p
contentOf(p) == rd[handleOf(p)].content

\* the digest inside the signature of d
signedDigest(d) == Base64URLDecode(d.Signature)[1][2].hashed

\* the header of the signed item d: everything of its encoding but the payload
headerOf(d) ==
    buildHeaderOnly(d, Base64URLDecode(d.Signature), Base64URLDecode(d.Owner),
                    Base64URLDecode(d.Target), d.Anchor, Serialize(d.Tags))

\* the finished pass of p read the whole payload from offset 0 and has the result
\* that follows from it
PassCorrect(p) ==
    /\ pass[p].read = contentOf(p)
    /\ pass[p].err = "nil"
    /\ pass[p].kind = "Sign" =>
          /\ signedDigest(sitem[p])
                = SHA256(DeepHash(Append(headChunks(sitem[p]), contentOf(p))))
          /\ sitem[p].Raw = headerOf(sitem[p])
    /\ Materializes(pass[p].kind) => pass[p].out = Cat(sitem[p].Raw, contentOf(p))

\* C12: for a data item signed in streamed mode Raw holds only the header,
\* GetRawWithData returns Raw followed by all bytes of the stream, WriteRawTo
\* writes the same bytes, and Decode of them returns an item with the ID, the
\* Signature and the Owner of the signed item (passes made one after another).
StreamedMaterialization ==
    ~raced =>
        \A p \in Procs :
            /\ sitem[p].Signature # EmptyString => sitem[p].Raw = headerOf(sitem[p])
            /\ (pass[p].pc = "done" /\ Materializes(pass[p].kind)) =>
                   pass[p].out = Cat(sitem[p].Raw, contentOf(p))
            /\ pass[p].dec # NoDecode =>
                   /\ pass[p].dec.res.outcome = "ok"
                   /\ pass[p].dec.res.item.ID = sitem[p].ID
                   /\ pass[p].dec.res.item.Signature = sitem[p].Signature
                   /\ pass[p].dec.res.item.Owner = sitem[p].Owner

\* C13: as long as no two passes were on one handle at the same time, a pass that
\* is reading has read the payload from offset 0 up to the position of its
\* handle, and every finished pass has read the whole payload and succeeded,
\* wherever the handle was before it.
StreamResetBeforeEachPass ==
    ~raced =>
        \A p \in Procs :
            /\ pass[p].pc = "reading" =>
                  pass[p].read = Slice(contentOf(p), 0, rd[handleOf(p)].pos)
            /\ pass[p].pc = "done" => PassCorrect(p)

\* on one shared handle, left at its end by the passes before, goroutine 1 has
\* signed and written its item and goroutine 2 has signed its own in between
StreamResetBeforeEachPassWitness ==
    /\ shared
    /\ ~raced
    /\ BLen(contentOf(1)) > chunkSize
    /\ pass[1].n = 2
    /\ pass[2].n = 1
    /\ pass[1].pc = "done"
    /\ pass[1].kind = "WriteRawTo"
    /\ pass[1].out = Cat(sitem[1].Raw, contentOf(1))
    /\ pass[2].pc = "done"
    /\ pass[2].err = "nil"

\* C14: a finished pass that did not read exactly the payload from offset 0, or
\* whose digest or buffer differs from the sequential one, occurs only when the
\* items share one handle and two passes were on it at the same time: never with
\* independent handles over the same data.
SharedStreamHandleUnsafe ==
    \A p \in Procs :
        (pass[p].pc = "done" /\ ~PassCorrect(p)) => (shared /\ raced)

\* on a shared handle, GetRawWithData of goroutine 1 ran while goroutine 2 was in
\* a pass, and returned a buffer that is not the header followed by the payload
SharedStreamHandleUnsafeWitness ==
    /\ shared
    /\ raced
    /\ pass[1].pc = "done"
    /\ pass[1].kind = "GetRawWithData"
    /\ pass[1].read # contentOf(1)
    /\ pass[1].out # Cat(sitem[1].Raw, contentOf(1))

----------------------------------------------------------------------------
(* transaction/bundle                                                      *)

(* longTo32ByteArray: byteArray[i] = long & 255, long = (long - byt) / 256, *)
(* for i from 0 to 31: long as 32 little-endian bytes.  The model's long   *)
(* is below 2^31, so the upper 28 bytes are zero.                          *)
longTo32ByteArray(long) ==
    Cat(Cat(Cat(Cat(Fill(Digit256(long, 0), 1), Fill(Digit256(long, 1), 1)),
                Fill(Digit256(long, 2), 1)), Fill(Digit256(long, 3), 1)), Fill(0, 28))

(* byteArrayToLong: value = value*256 + b[i] from the last byte down to    *)
(* the first, over Go's 64-bit int, which wraps: of 32 little-endian bytes *)
(* only the first 8 count, and the top bit of the eighth is the sign.      *)
byteArrayToLongOf(v) ==
    IF v[8] >= 128 THEN IntNegative
    ELSE IF v[8] # 0 \/ v[7] # 0 \/ v[6] # 0 \/ v[5] # 0 \/ v[4] >= 128 THEN IntHuge
    ELSE ((v[4] * 256 + v[3]) * 256 + v[2]) * 256 + v[1]

byteArrayToLong(b) == byteArrayToLongOf(ByteVals(b))

\* Header
Header(id, size, raw) == [ID |-> id, Size |-> size, Raw |-> raw]

\* the size generateBundleHeader would record if it counted the streamed payload
headerSizeWithData(d) == BLen(d.Raw) + d.DataSize

\* size := len(dataItem.Raw)
headerSize(d) == BLen(d.Raw)

\* generateBundleHeader: a header per data item, or the error of the first ID
\* that is not base64url
generateBundleHeader(ds) ==
    IF \E i \in 1..Len(ds) : Base64URLDecodeErr(ds[i].ID)
    THEN [err |-> "illegal base64 data", headers |-> <<>>]
    ELSE [err |-> "nil",
          headers |-> [i \in 1..Len(ds) |->
                          Header(ds[i].ID, headerSize(ds[i]),
                                 Cat(Base64URLDecode(ds[i].ID),
                                     longTo32ByteArray(headerSize(ds[i]))))]]

RECURSIVE headersBytesFrom(_, _)
\* headersBytes: for each header from the i-th on, its size and its id
headersBytesFrom(headers, i) ==
    IF i > Len(headers) THEN <<>>
    ELSE Cat(Cat(longTo32ByteArray(headers[i].Size), Base64URLDecode(headers[i].ID)),
             headersBytesFrom(headers, i + 1))

RECURSIVE dataItemsBytesFrom(_, _)
\* dataItemsBytes: d.Raw of each item from the i-th on
dataItemsBytesFrom(ds, i) ==
    IF i > Len(ds) THEN <<>> ELSE Cat(ds[i].Raw, dataItemsBytesFrom(ds, i + 1))

\* Bundle
Bundle(headers, items, raw) == [Headers |-> headers, Items |-> items, Raw |-> raw]

\* bundle.New, once generateBundleHeader returned h
bundleOf(ds, h) ==
    IF h.err # "nil" THEN [err |-> h.err, b |-> Bundle(<<>>, <<>>, <<>>)]
    ELSE [err |-> "nil",
          b |-> Bundle(h.headers, ds,
                       Cat(Cat(longTo32ByteArray(Len(ds)), headersBytesFrom(h.headers, 1)),
                           dataItemsBytesFrom(ds, 1)))]

\* bundle.New(ds)
bundleNew(ds) == bundleOf(ds, generateBundleHeader(ds))

(* decodeBundleHeader(data) on the backing array mem of data: N and the N  *)
(* headers.  The slice expressions data[i:i+32] and data[i+32:i+64] panic  *)
(* when the table does not fit the capacity.  The counts of the model's    *)
(* buffers are below 2^31.                                                 *)
decodeBundleHeaderOf(mem, N) ==
    IF N >= 1 /\ 32 + 64 * N > BLen(mem) THEN [panic |-> TRUE, headers |-> <<>>, N |-> N]
    ELSE [panic |-> FALSE,
          headers |-> [k \in 1..N |->
                          Header(Base64URLEncode(Slice(mem, 64 * k, 64 * k + 32)),
                                 byteArrayToLong(Slice(mem, 64 * k - 32, 64 * k)),
                                 Slice(mem, 64 * k - 32, 64 * k + 32))],
          N |-> N]

decodeBundleHeader(mem) == decodeBundleHeaderOf(mem, byteArrayToLong(Slice(mem, 0, 32)))

\* what bundle.Decode and bundle.Verify return, or that they panic
BOk(v) == [outcome |-> "ok", val |-> v]

BErr(m) == [outcome |-> "error", msg |-> m]

BPanic == [outcome |-> "panic"]

\* the data item Decode of the slice raw of the backing array mem
DecodeSlice(raw, mem) ==
    IF BLen(raw) < 2 THEN DecErr("binary too small")
    ELSE decodeSignatureType(raw, mem, Uint16(Slice(raw, 0, 2)))

RECURSIVE decodeItems(_, _, _, _, _, _)
RECURSIVE decodeItemsNext(_, _, _, _, _, _, _)

(* the loop of bundle.Decode from item i on, whose slice starts at          *)
(* bundleStart: data[bundleStart:bundleEnd] panics when bundleEnd is below *)
(* bundleStart or above the capacity                                       *)
decodeItems(mem, n, headers, i, bundleStart, acc) ==
    IF i > Len(headers) THEN BOk(Bundle(<<>>, acc, Slice(mem, 0, n)))
    ELSE IF headers[i].Size = IntHuge \/ headers[i].Size < 0 THEN BPanic
    ELSE IF bundleStart + headers[i].Size > BLen(mem) THEN BPanic
    ELSE decodeItemsNext(mem, n, headers, i, bundleStart, acc,
                         DecodeSlice(Slice(mem, bundleStart, bundleStart + headers[i].Size),
                                     Slice(mem, bundleStart, BLen(mem))))

\* the loop, once data_item.Decode returned r for item i
decodeItemsNext(mem, n, headers, i, bundleStart, acc, r) ==
    IF r.outcome = "panic" THEN BPanic
    ELSE IF r.outcome = "error" THEN BErr(r.msg)
    ELSE decodeItems(mem, n, headers, i + 1, bundleStart + headers[i].Size,
                     Append(acc, r.item))

\* bundle.Decode, once decodeBundleHeader returned h; make([]DataItem, N) panics
\* for a negative N
bundleDecodeOf(mem, n, h) ==
    IF h.panic THEN BPanic
    ELSE IF h.N < 0 THEN BPanic
    ELSE decodeItems(mem, n, h.headers, 1, 32 + 64 * h.N, <<>>)

\* bundle.Decode(data) for data of length n with the backing array mem
bundleDecode(mem, n) ==
    IF n < 32 THEN BErr("binary length must more than 32")
    ELSE bundleDecodeOf(mem, n, decodeBundleHeader(mem))

RECURSIVE dataItemSizeFrom(_, _)
\* dataItemSize: the sum of the sizes of the headers from the i-th on
dataItemSizeFrom(headers, i) ==
    IF i > Len(headers) THEN 0 ELSE headers[i].Size + dataItemSizeFrom(headers, i + 1)

(* bundle.Verify, once decodeBundleHeader returned h.  A size of 2^31 - 1  *)
(* or more, or a negative one, differs from every size of the model's      *)
(* buffers by more than their length, so the lengths do not match.         *)
bundleVerifyOf(n, h) ==
    IF h.panic THEN BPanic
    ELSE IF \E i \in 1..Len(h.headers) :
               h.headers[i].Size = IntHuge \/ h.headers[i].Size < 0
    THEN BOk(FALSE)
    ELSE BOk(n = dataItemSizeFrom(h.headers, 1) + 32 + 64 * h.N)

\* bundle.Verify(data)
bundleVerify(mem, n) ==
    IF n < 32 THEN BErr("binary length must more than 32")
    ELSE bundleVerifyOf(n, decodeBundleHeader(mem))

----------------------------------------------------------------------------
(* Bundles of signed data items: New, Verify and Decode, and Verify and    *)
(* Decode of buffers that are not the output of New.                       *)

\* most data items in a bundle
MaxItems == 2

(* the signed items bundles are made of: an empty in-memory item, an       *)
(* in-memory item with payload, target, anchor and a tag, and a streamed   *)
(* item, whose Raw holds its header only                                   *)
BundlePool ==
    {Sign(New(<<>>, EmptyString, <<>>, <<>>), 1, 1).item,
     Sign(New(Fill(7, PayloadLen), Base64URLEncode(Fill(9, 32)), Fill(97, 32), <<SmallTag>>),
          2, 1).item,
     Sign(NewFromReader(Reader(Fill(7, PayloadLen), 0), PayloadLen, EmptyString, <<>>, <<>>),
          1, 1).item}

\* capacity beyond the length of a buffer handed to Decode
BundleSlacks == {0, RawSlack}

\* the values a byte of a size field is overwritten with
CorruptBytes == {0, 1, 128, 255}

\* the backing array of a buffer with slack bytes of capacity beyond its length
backing(buf, slack) == Cat(buf, Fill(0, slack))

(* buffers that are not the output of New, each with what is wrong: the    *)
(* raw bytes of a bundle of N items cut inside or at the start of the      *)
(* header table or one byte before the end, or followed by one more byte,  *)
(* and tables of one header over three bytes that are no data item and     *)
(* over the two bytes of a signature type                                  *)
MalformedInputs(raw, N) ==
    {[why |-> "bytes remain", data |-> Cat(raw, Fill(0, 1))],
     [why |-> "item fails to decode",
      data |-> Cat(Cat(longTo32ByteArray(1), Cat(longTo32ByteArray(3), Fill(0, 32))),
                   Fill(9, 3))],
     [why |-> "item fails to decode",
      data |-> Cat(Cat(longTo32ByteArray(1), Cat(longTo32ByteArray(2), Fill(0, 32))),
                   Cat(Fill(1, 1), Fill(0, 1)))]}
    \cup (IF N = 0 THEN {}
          ELSE {[why |-> "header table past the end", data |-> Slice(raw, 0, 32)],
                [why |-> "header table past the end",
                 data |-> Slice(raw, 0, 32 + 64 * N - 1)],
                [why |-> "item slice past the end",
                 data |-> Slice(raw, 0, BLen(raw) - 1)]})

BundleInit ==
    /\ MerkleIdle /\ ItemIdle /\ StreamIdle /\ TxIdle /\ UploaderIdle
    /\ bitems \in UNION {[1..n -> BundlePool] : n \in 0..MaxItems}
    /\ bundle = [kind |-> "none"]
    /\ bcall = [kind |-> "none"]
    /\ bpc = "start"

\* b, err := bundle.New(&items)
BundleNew ==
    /\ bpc = "start"
    /\ bundle' = bundleNew(bitems)
    /\ bpc' = "made"
    /\ UNCHANGED <<bitems, bcall>>

\* a call on the bytes of the bundle New returned
MayCall == bpc = "made" /\ bundle.err = "nil"

\* bundle.Verify(b.Raw)
BundleVerify ==
    /\ MayCall
    /\ bcall' = [kind |-> "Verify", res |-> bundleVerify(bundle.b.Raw, BLen(bundle.b.Raw))]
    /\ bpc' = "called"
    /\ UNCHANGED <<bitems, bundle>>

\* bundle.Decode(b.Raw)
BundleDecode ==
    /\ MayCall
    /\ \E slack \in BundleSlacks :
          bcall' = [kind |-> "Decode", slack |-> slack,
                    res |-> bundleDecode(backing(bundle.b.Raw, slack), BLen(bundle.b.Raw))]
    /\ bpc' = "called"
    /\ UNCHANGED <<bitems, bundle>>

\* Verify of buf, and Decode of it when Verify returned true
verifyThenDecode(h, k, buf, v) ==
    [kind |-> "CorruptSize", h |-> h, k |-> k, verify |-> v,
     decode |-> IF v = BOk(TRUE) THEN bundleDecode(buf, BLen(buf))
                ELSE [outcome |-> "not called"]]

\* byte k of the size field of header h of b.Raw is changed to nb, then Verify
\* and Decode are called
BundleCorruptSize ==
    /\ MayCall
    /\ \E h \in 1..Len(bitems), k \in 0..31, nb \in CorruptBytes :
          /\ ByteAt(bundle.b.Raw, 64 * h - 32 + k) # nb
          /\ bcall' = verifyThenDecode(h, k, SetByte(bundle.b.Raw, 64 * h - 32 + k, Fill(nb, 1)),
                           bundleVerify(SetByte(bundle.b.Raw, 64 * h - 32 + k, Fill(nb, 1)),
                                        BLen(bundle.b.Raw)))
    /\ bpc' = "called"
    /\ UNCHANGED <<bitems, bundle>>

\* bundle.Decode of a buffer that is not the output of New
BundleDecodeMalformed ==
    /\ MayCall
    /\ \E m \in MalformedInputs(bundle.b.Raw, Len(bitems)), slack \in BundleSlacks :
          bcall' = [kind |-> "DecodeMalformed", why |-> m.why, slack |-> slack,
                    data |-> m.data,
                    res |-> bundleDecode(backing(m.data, slack), BLen(m.data))]
    /\ bpc' = "called"
    /\ UNCHANGED <<bitems, bundle>>

BundleIdleOthers == UNCHANGED <<merkleVars, itemVars, streamVars, txVars, uploaderVars>>

BundleNext ==
    \/ BundleNew /\ BundleIdleOthers
    \/ BundleVerify /\ BundleIdleOthers
    \/ BundleDecode /\ BundleIdleOthers
    \/ BundleCorruptSize /\ BundleIdleOthers
    \/ BundleDecodeMalformed /\ BundleIdleOthers

BundleSpec == BundleInit /\ [][BundleNext]_vars

RECURSIVE sumRawFrom(_, _)
\* the sum of len(item.Raw) over the items from the i-th on
sumRawFrom(ds, i) == IF i > Len(ds) THEN 0 ELSE BLen(ds[i].Raw) + sumRawFrom(ds, i + 1)

(* C15: for a list of N signed data items New returns a bundle whose Raw   *)
(* has 32 + 64*N + the sum of len(item.Raw) bytes, 32 zero bytes for an    *)
(* empty list, and Verify of that Raw returns true.                        *)
BundleStructuralLaw ==
    /\ bpc \in {"made", "called"} =>
          /\ bundle.err = "nil"
          /\ BLen(bundle.b.Raw) = 32 + 64 * Len(bitems) + sumRawFrom(bitems, 1)
          /\ Len(bitems) = 0 => bundle.b.Raw = Fill(0, 32)
    /\ (bpc = "called" /\ bcall.kind = "Verify") => bcall.res = BOk(TRUE)

BundleStructuralLawWitness ==
    /\ bpc = "called" /\ bcall.kind = "Verify" /\ bcall.res = BOk(TRUE)
    /\ Len(bitems) = 2
    /\ isStreaming(bitems[1]) /\ ~isStreaming(bitems[2])
    /\ BLen(bundle.b.Raw) > 32 + 64 * 2 + 2 * 1042

(* C16: after one byte of the 32-byte size field of a header of a valid    *)
(* bundle is changed, bytes 8 to 31 included, Verify returns false or      *)
(* Decode fails.                                                           *)
BundleSizeCorruptionDetected ==
    (bpc = "called" /\ bcall.kind = "CorruptSize") =>
        \/ bcall.verify = BOk(FALSE)
        \/ bcall.decode.outcome \in {"error", "panic"}

(* C17: Decode returns an error, and does not panic, for a buffer whose    *)
(* header table or an item slice extends past its end, one of whose item   *)
(* slices fails to decode, or that has bytes after its last item.          *)
BundleDecodeRejectsMalformedInput ==
    (bpc = "called" /\ bcall.kind = "DecodeMalformed") => bcall.res.outcome = "error"

(* C18: a Bundle returned by New or by Decode has as many Headers as       *)
(* Items.                                                                  *)
BundleHeadersMatchItems ==
    /\ (bpc \in {"made", "called"} /\ bundle.err = "nil") =>
          Len(bundle.b.Headers) = Len(bundle.b.Items)
    /\ (bpc = "called" /\ bcall.kind \in {"Decode", "DecodeMalformed"}
          /\ bcall.res.outcome = "ok") =>
          Len(bcall.res.val.Headers) = Len(bcall.res.val.Items)

\* the payload of a signed item: the bytes of its stream, or its Data
payloadOf(d) == IF isStreaming(d) THEN d.DataReader.content ELSE Base64URLDecode(d.Data)

RECURSIVE fullItemsBytesFrom(_, _)
\* the full raw encodings, header and payload, of the items from the i-th on
fullItemsBytesFrom(ds, i) ==
    IF i > Len(ds) THEN <<>>
    ELSE Cat(IF isStreaming(ds[i]) THEN Cat(ds[i].Raw, payloadOf(ds[i])) ELSE ds[i].Raw,
             fullItemsBytesFrom(ds, i + 1))

(* C19: the Raw of New(items) is the header table followed by the full raw *)
(* encoding, header and payload, of every item, streamed items included,   *)
(* and Decode of it returns items with the ID and the Data payload of the  *)
(* originals.                                                              *)
BundleCarriesFullItemBinaries ==
    /\ (bpc \in {"made", "called"} /\ bundle.err = "nil") =>
          bundle.b.Raw = Cat(Cat(longTo32ByteArray(Len(bitems)),
                                 headersBytesFrom(bundle.b.Headers, 1)),
                             fullItemsBytesFrom(bitems, 1))
    /\ (bpc = "called" /\ bcall.kind = "Decode") =>
          /\ bcall.res.outcome = "ok"
          /\ Len(bcall.res.val.Items) = Len(bitems)
          /\ \A i \in 1..Len(bitems) :
                /\ bcall.res.val.Items[i].ID = bitems[i].ID
                /\ bcall.res.val.Items[i].Data = Base64URLEncode(payloadOf(bitems[i]))

----------------------------------------------------------------------------
(* transaction: New, PrepareChunks, Sign, Verify                            *)

\* tag.ConvertToBase64: names and values base64url encoded
ConvertToBase64(tags) ==
    [i \in 1..Len(tags) |->
        Tag(Base64URLEncode(tags[i].Name), Base64URLEncode(tags[i].Value))]

\* []byte("0")
StrZero == Str(<<48>>)

\* []byte("2")
StrTwo == Str(<<50>>)

\* the ChunkData PrepareChunks builds for an empty payload
NoChunkData == [DataRoot |-> EmptyString, Chunks |-> <<>>, Proofs |-> <<>>]

\* tx.ChunkData is a pointer: <<>> is nil, <<c>> points to the ChunkData c
NilChunkData == <<>>

(* transaction.New(data, target, quantity, tags).  Quantity, Reward and    *)
(* DataSize are strings of digits, held as their bytes.                    *)
transactionNew(rawData, target, quantity, tags) ==
    [Format |-> 2, ID |-> EmptyString, LastTx |-> EmptyString, Owner |-> EmptyString,
     Tags |-> ConvertToBase64(tags), Target |-> target,
     Quantity |-> IF quantity = <<>> THEN StrZero ELSE quantity,
     Data |-> Base64URLEncode(rawData), Reward |-> <<>>, Signature |-> EmptyString,
     DataSize |-> StrZero, DataRoot |-> EmptyString, ChunkData |-> NilChunkData]

\* tx.PrepareChunks(data), with chunked what generateTransactionChunks(data) returns
PrepareChunksOf(t, rawData, chunked) ==
    IF BLen(rawData) > 0
    THEN [t EXCEPT !.DataSize = Sprint(BLen(rawData)), !.ChunkData = <<chunked>>,
                   !.DataRoot = chunked.DataRoot]
    ELSE [t EXCEPT !.ChunkData = <<NoChunkData>>, !.DataRoot = EmptyString]

\* tx.PrepareChunks(data)
PrepareChunks(t, rawData) ==
    PrepareChunksOf(t, rawData,
                    IF BLen(rawData) > 0 THEN generateTransactionChunks(rawData)
                    ELSE NoChunkData)

\* what GetChunk returns, or that it panics
GetChunkResult(t, proof, chunkBytes) ==
    [outcome |-> "ok", DataRoot |-> t.DataRoot, DataSize |-> t.DataSize,
     DataPath |-> Base64URLEncode(proof.Proof), Offset |-> Sprint(proof.Offset),
     Chunk |-> Base64URLEncode(chunkBytes)]

(* tx.GetChunk(i, data) for a data whose capacity is its length:           *)
(* tx.ChunkData.Proofs[i] and Chunks[i] panic for an index out of range,   *)
(* data[MinByteRange:MaxByteRange] for a range beyond the data.            *)
GetChunk(t, i, rawData) ==
    IF t.ChunkData = NilChunkData
    THEN [outcome |-> "error", msg |-> "chunks have not been prepared"]
    ELSE IF i < 0 \/ i >= Len(t.ChunkData[1].Proofs) \/ i >= Len(t.ChunkData[1].Chunks)
    THEN [outcome |-> "panic", msg |-> "index out of range"]
    ELSE IF t.ChunkData[1].Chunks[i + 1].MaxByteRange > BLen(rawData)
    THEN [outcome |-> "panic", msg |-> "slice bounds out of range"]
    ELSE GetChunkResult(t, t.ChunkData[1].Proofs[i + 1],
                        Slice(rawData, t.ChunkData[1].Chunks[i + 1].MinByteRange,
                              t.ChunkData[1].Chunks[i + 1].MaxByteRange))

\* tag.Decode: whether it returns an error
tagDecodeErr(tags) ==
    \E i \in 1..Len(tags) :
        Base64URLDecodeErr(tags[i].Name) \/ Base64URLDecodeErr(tags[i].Value)

\* tag.Decode: the list of [name, value] pairs
tagDecode(tags) ==
    [i \in 1..Len(tags) |-> <<Base64URLDecode(tags[i].Name), Base64URLDecode(tags[i].Value)>>]

RECURSIVE deepHashTags(_, _, _)
\* deepHashChunk over a list of [name, value] pairs, each a list of two []byte
deepHashTags(pairs, i, acc) ==
    IF i > Len(pairs) THEN acc
    ELSE deepHashTags(pairs, i + 1, SHA384(Cat(acc, DeepHash(pairs[i]))))

\* DeepHash of the list tag.Decode returns
DeepHashTags(pairs) == deepHashTags(pairs, 1, SHA384(Cat(StrList, Sprint(Len(pairs)))))

(* DeepHash of the nine elements of getSignatureData: six []byte, the tag  *)
(* list, and two []byte                                                    *)
DeepHashTransaction(before, rawTags, after) ==
    deepHashChunk(after, 1,
        SHA384(Cat(deepHashChunk(before, 1,
                                 SHA384(Cat(StrList,
                                            Sprint(Len(before) + 1 + Len(after))))),
                   DeepHashTags(rawTags))))

\* getSignatureData after PrepareChunks, on the transaction t it left
signatureDataOf(t) ==
    [err |-> "nil", tx |-> t,
     hash |-> DeepHashTransaction(
                  <<StrTwo, Base64URLDecode(t.Owner), Base64URLDecode(t.Target),
                    t.Quantity, t.Reward, Base64URLDecode(t.LastTx)>>,
                  tagDecode(t.Tags),
                  <<t.DataSize, Base64URLDecode(t.DataRoot)>>)]

\* tx.getSignatureData(): the error, the digest, and the transaction as it leaves it
getSignatureData(t) ==
    IF t.Format # 2
    THEN [err |-> "only type 2 transaction supported", tx |-> t, hash |-> <<>>]
    ELSE IF \/ Base64URLDecodeErr(t.Owner) \/ Base64URLDecodeErr(t.Target)
            \/ tagDecodeErr(t.Tags) \/ Base64URLDecodeErr(t.LastTx)
            \/ Base64URLDecodeErr(t.Data)
    THEN [err |-> "illegal base64 data", tx |-> t, hash |-> <<>>]
    ELSE signatureDataOf(PrepareChunks(t, Base64URLDecode(t.Data)))

\* tx.Sign(s), once getSignatureData returned g
transactionSignOf(g, s, salt) ==
    IF g.err # "nil" THEN [err |-> g.err, tx |-> g.tx]
    ELSE [err |-> "nil",
          tx |-> [g.tx EXCEPT
                     !.ID = Base64URLEncode(SHA256(cryptoSign(g.hash, s, salt))),
                     !.Signature = Base64URLEncode(cryptoSign(g.hash, s, salt))]]

\* tx.Sign(s) with the salt the signature draws
transactionSign(t, s, salt) == transactionSignOf(getSignatureData(t), s, salt)

\* tx.Verify(), once getSignatureData returned g
transactionVerifyOf(g) ==
    IF g.err # "nil" THEN [err |-> g.err, tx |-> g.tx]
    ELSE IF Base64URLDecodeErr(g.tx.Signature) \/ Base64URLDecodeErr(g.tx.Owner)
    THEN [err |-> "illegal base64 data", tx |-> g.tx]
    ELSE IF ~cryptoVerify(g.hash, Base64URLDecode(g.tx.Signature),
                          Base64URLDecode(g.tx.Owner))
    THEN [err |-> "crypto/rsa: verification error", tx |-> g.tx]
    ELSE [err |-> "nil", tx |-> g.tx]

\* tx.Verify()
transactionVerify(t) == transactionVerifyOf(getSignatureData(t))

----------------------------------------------------------------------------
(* Transactions: New, the fields the caller sets, PrepareChunks, Sign and  *)
(* Verify.                                                                 *)

\* payloads: none, one chunk, and more than one chunk
TxPayloads ==
    {<<>>, Fill(7, PayloadLen), Cat(Fill(1, MAX_CHUNK_SIZE), Fill(2, PayloadLen))}

TxTargets == {EmptyString, Base64URLEncode(Fill(9, 32))}

\* "" and "1000"
TxQuantities == {<<>>, Str(<<49, 48, 48, 48>>)}

TxTagLists == {<<>>, <<SmallTag, Tag(Fill(110, 4), Fill(118, 5))>>}

\* the formats the caller may leave or set
TxFormats == {1, 2}

TxLastTxs == {EmptyString, Base64URLEncode(Fill(5, 48))}

TxInit ==
    /\ MerkleIdle /\ ItemIdle /\ StreamIdle /\ BundleIdle /\ UploaderIdle
    /\ \E rawData \in TxPayloads, target \in TxTargets, quantity \in TxQuantities,
          tags \in TxTagLists :
          tx = transactionNew(rawData, target, quantity, tags)
    /\ txres = [kind |-> "none"]
    /\ tpc = "new"

\* tx.Owner = s.Owner(), tx.LastTx = ..., tx.Reward = ..., and the format
TxSetFields ==
    /\ tpc = "new"
    /\ \E s \in Signers, lastTx \in TxLastTxs, format \in TxFormats :
          tx' = [tx EXCEPT !.Owner = Owner(s), !.LastTx = lastTx,
                           !.Reward = Str(<<49, 48>>), !.Format = format]
    /\ tpc' = "ready"
    /\ UNCHANGED txres

\* tx.PrepareChunks(data) called by the user of the transaction
TxPrepareChunks ==
    /\ tpc \in {"ready", "prepared"}
    /\ \E rawData \in TxPayloads :
          /\ tx' = PrepareChunks(tx, rawData)
          /\ txres' = [kind |-> "PrepareChunks", data |-> rawData, before |-> tx]
    /\ tpc' = "prepared"

\* the indexes GetChunk is called with
ChunkIndexes == (0 - 1)..2

\* res, err := tx.GetChunk(i, data)
TxGetChunk ==
    /\ tpc \in {"ready", "prepared"}
    /\ \E i \in ChunkIndexes, rawData \in TxPayloads :
          txres' = [kind |-> "GetChunk", i |-> i, data |-> rawData,
                    res |-> GetChunk(tx, i, rawData)]
    /\ tpc' = "got"
    /\ UNCHANGED tx

\* err := tx.Sign(s)
TxSign ==
    /\ tpc \in {"ready", "prepared"}
    /\ \E s \in Signers, salt \in Salts :
          /\ tx' = transactionSign(tx, s, salt).tx
          /\ txres' = [kind |-> "Sign", signer |-> s, before |-> tx,
                       err |-> transactionSign(tx, s, salt).err]
    /\ tpc' = "signed"

\* err := tx.Verify(), right after a Sign that returned nil
TxVerify ==
    /\ tpc = "signed"
    /\ txres.err = "nil"
    /\ tx' = transactionVerify(tx).tx
    /\ txres' = [kind |-> "Verify", signer |-> txres.signer, before |-> txres.before,
                 signed |-> tx, err |-> transactionVerify(tx).err]
    /\ tpc' = "verified"

\* tx.Data = "": the signed transaction as it travels without its payload
TxStripData ==
    /\ tpc = "signed"
    /\ txres.err = "nil"
    /\ tx' = [tx EXCEPT !.Data = EmptyString]
    /\ tpc' = "stripped"
    /\ UNCHANGED txres

\* err := tx.Verify() of a transaction that was not signed just before
TxVerifyOther ==
    /\ tpc \in {"ready", "prepared", "stripped"}
    /\ tx' = transactionVerify(tx).tx
    /\ txres' = [kind |-> "Verify", before |-> tx, err |-> transactionVerify(tx).err]
    /\ tpc' = "checked"

TxIdleOthers == UNCHANGED <<merkleVars, itemVars, streamVars, bundleVars, uploaderVars>>

TxNext ==
    \/ TxSetFields /\ TxIdleOthers
    \/ TxPrepareChunks /\ TxIdleOthers
    \/ TxGetChunk /\ TxIdleOthers
    \/ TxSign /\ TxIdleOthers
    \/ TxVerify /\ TxIdleOthers
    \/ TxStripData /\ TxIdleOthers
    \/ TxVerifyOther /\ TxIdleOthers

TxSpec == TxInit /\ [][TxNext]_vars

\* the payload of a transaction: its Data, decoded
txPayload(t) == Base64URLDecode(t.Data)

\* the signer's key is the Owner of the format-2 transaction Sign was called on
OwnerSigns == txres.before.Format = 2 /\ txres.before.Owner = Owner(txres.signer)

(* C20: Sign of a format-2 transaction whose Owner is the signer's key     *)
(* returns nil, leaves DataSize and DataRoot computed from Data, and sets  *)
(* ID to base64url(SHA256(signature)); Verify right after it returns nil;  *)
(* Sign of a transaction whose Format is not 2 returns an error.           *)
TransactionSignThenVerify ==
    /\ (tpc = "signed" /\ OwnerSigns) =>
          /\ txres.err = "nil"
          /\ tx.DataSize = Sprint(BLen(txPayload(tx)))
          /\ tx.DataRoot = IF BLen(txPayload(tx)) > 0
                           THEN generateTransactionChunks(txPayload(tx)).DataRoot
                           ELSE EmptyString
          /\ tx.ID = Base64URLEncode(SHA256(Base64URLDecode(tx.Signature)))
    /\ (tpc = "verified" /\ OwnerSigns) => txres.err = "nil"
    /\ (tpc = "signed" /\ txres.before.Format # 2) => txres.err # "nil"

(* C21: after PrepareChunks(data), whatever calls preceded it, DataSize is *)
(* the decimal string of len(data), DataRoot the Merkle root of data, the  *)
(* empty string for an empty data, and ChunkData holds the chunks and the  *)
(* proofs of data.                                                         *)
PrepareChunksRefreshesDerivedFields ==
    (tpc = "prepared" /\ txres.kind = "PrepareChunks") =>
        /\ tx.DataSize = Sprint(BLen(txres.data))
        /\ tx.DataRoot = IF BLen(txres.data) > 0
                         THEN generateTransactionChunks(txres.data).DataRoot
                         ELSE EmptyString
        /\ tx.ChunkData # NilChunkData
        /\ tx.ChunkData[1].Chunks = IF BLen(txres.data) > 0
                                    THEN generateTransactionChunks(txres.data).Chunks
                                    ELSE <<>>
        /\ tx.ChunkData[1].Proofs = IF BLen(txres.data) > 0
                                    THEN generateTransactionChunks(txres.data).Proofs
                                    ELSE <<>>

\* i is an index of tx.ChunkData.Chunks
ValidChunkIndex(i) ==
    tx.ChunkData # NilChunkData /\ 0 <= i /\ i < Len(tx.ChunkData[1].Chunks)

(* C22: GetChunk(i, data) returns an error, and does not panic, when the   *)
(* chunks have not been prepared and when i is not an index of the chunks; *)
(* for an index of the chunks of data it returns the path and the offset   *)
(* of Proofs[i] and the bytes of data in the range of Chunks[i].           *)
GetChunkErrorContract ==
    (tpc = "got" /\ txres.kind = "GetChunk") =>
        /\ ~ValidChunkIndex(txres.i) => txres.res.outcome = "error"
        /\ (/\ ValidChunkIndex(txres.i)
            /\ tx.ChunkData[1].Chunks[txres.i + 1].MaxByteRange <= BLen(txres.data)) =>
              /\ txres.res.outcome = "ok"
              /\ txres.res.DataPath
                    = Base64URLEncode(tx.ChunkData[1].Proofs[txres.i + 1].Proof)
              /\ txres.res.Offset = Sprint(tx.ChunkData[1].Proofs[txres.i + 1].Offset)
              /\ txres.res.Chunk
                    = Base64URLEncode(Slice(txres.data,
                          tx.ChunkData[1].Chunks[txres.i + 1].MinByteRange,
                          tx.ChunkData[1].Chunks[txres.i + 1].MaxByteRange))

(* C28: Verify leaves every field of the transaction as it was, whether it *)
(* returns nil or an error.                                                *)
TransactionVerifyReadOnly ==
    /\ tpc = "verified" => tx = txres.signed
    /\ tpc = "checked" => tx = txres.before

(* C26: a result validatePath(root, dest, 0, len(data), path) returns      *)
(* without error, for any dest, has 0 <= LeftBound < RightBound <=         *)
(* len(data), ChunkSize = RightBound - LeftBound > 0 and Offset =          *)
(* RightBound - 1.                                                         *)
ValidatePathResultWellFormed ==
    (mpc = "validated" /\ vcall.res.outcome = "ok") =>
        /\ 0 <= vcall.res.LeftBound
        /\ vcall.res.LeftBound < vcall.res.RightBound
        /\ vcall.res.RightBound <= BLen(data)
        /\ vcall.res.ChunkSize = vcall.res.RightBound - vcall.res.LeftBound
        /\ vcall.res.ChunkSize > 0
        /\ vcall.res.Offset = vcall.res.RightBound - 1

(* C27: for a payload of two or more retained chunks, validatePath with    *)
(* the proof of chunk c returns an error for every dest of the payload     *)
(* outside the byte range of c.                                            *)
ProofBoundToChunk ==
    (/\ mpc = "validated" /\ vcall.kind = "otherDest"
     /\ Len(txChunks.Chunks) >= 2
     /\ 0 <= vcall.dest /\ vcall.dest < BLen(data)) =>
        vcall.res.outcome = "error"

\* the proof of the second of three chunks is refused for the first byte of the
\* third
ProofBoundToChunkWitness ==
    /\ mpc = "validated" /\ vcall.kind = "otherDest"
    /\ Len(txChunks.Chunks) = 3
    /\ vcall.index = 2
    /\ vcall.dest = txChunks.Chunks[3].MinByteRange
    /\ vcall.res.outcome = "error"

----------------------------------------------------------------------------
(* Properties of the tag fields of the raw encoding.                       *)

\* the offset at which Sign writes the tag count: after the signature type, the
\* signature, the owner, and the target and anchor flags and fields
tagFieldsAt(d) ==
    2 + 2 * KeyBytes + 1 + BLen(Base64URLDecode(d.Target)) + 1 + BLen(d.Anchor)

\* the number 8 little-endian bytes hold
Uint64Of(v) ==
    IF v[5] # 0 \/ v[6] # 0 \/ v[7] # 0 \/ v[8] # 0 \/ v[4] >= 128 THEN IntHuge
    ELSE ((v[4] * 256 + v[3]) * 256 + v[2]) * 256 + v[1]

\* numberOfTags and numberOfTagBytes as tag.Deserialize reads them at startAt
tagNumbersAt(mem, startAt) ==
    IF startAt + 8 + 8 > BLen(mem) THEN <<0 - 1, 0 - 1>>
    ELSE <<ByteAt(mem, startAt), Uint16(Slice(mem, startAt + 8, startAt + 8 + 8))>>

\* the two numbers Decode(raw) reads, <<-1, -1>> when it panics before
tagNumbersAfter(raw, anchor) ==
    IF anchor.panic THEN <<0 - 1, 0 - 1>> ELSE tagNumbersAt(raw, anchor.position)

tagNumbersAfterTarget(raw, target) ==
    IF target.panic THEN <<0 - 1, 0 - 1>>
    ELSE tagNumbersAfter(raw, getAnchor(raw, BLen(raw), target.position))

tagNumbersRead(raw) ==
    tagNumbersAfterTarget(raw, getTarget(raw, BLen(raw), 2 + 2 * KeyBytes))

(* C23: in the Raw written by Sign for an item within the structural       *)
(* limits the 8-byte tagCount field holds the number of tags and the       *)
(* 8-byte tagBytesLength field holds len(serializedTags), and Decode       *)
(* reads the same two numbers.                                             *)
TagCountAndLengthExact ==
    (ipc \in {"signed", "verified"} /\ serr = "nil" /\ WithinLimits(item)) =>
        /\ Uint64Of(ByteVals(Slice(item.Raw, tagFieldsAt(item), tagFieldsAt(item) + 8)))
              = Len(item.Tags)
        /\ Uint64Of(ByteVals(Slice(item.Raw, tagFieldsAt(item) + 8,
                                   tagFieldsAt(item) + 16)))
              = BLen(Serialize(item.Tags))
        /\ tagNumbersRead(item.Raw) = <<Len(item.Tags), BLen(Serialize(item.Tags))>>

(* C24: a signed item whose tags Verify accepts is not refused by the      *)
(* check Decode makes on the number of tags of its raw encoding.           *)
DecodeAcceptsVerifiedTagCount ==
    (ipc = "decoded" /\ dec.kind = "raw" /\ verr = "nil") =>
        ~(dec.res.outcome = "error" /\ dec.res.msg = "invalid data item - max tags 127")

----------------------------------------------------------------------------
(* The signed data item under the operations that read it.                 *)

\* the fields of the data item d but its reader
ItemFields(d) ==
    <<d.ID, d.Signature, d.Owner, d.Target, d.Anchor, d.Tags, d.Data, d.Raw, d.DataSize>>

----------------------------------------------------------------------------
(* uploader/uploader.go                                                    *)

MAX_CHUNKS_IN_BODY == 1

FATAL_CHUNK_UPLOAD_ERRORS ==
    {"invalid_json", "chunk_too_big", "data_path_too_big", "offset_too_big",
     "data_size_too_big", "chunk_proof_ratio_not_attractive", "invalid_proof"}

(* uploader.New(c, t).  LastRequestTimeEnd is "zero", "now" (the clock at  *)
(* the end of a request) or "hour" (time.Hour.Milliseconds()); the strings *)
(* LastResponseError and the errors returned are held as they are.         *)
uploaderNew(t) ==
    [transaction |-> t, ChunkIndex |-> 0, TxPosted |-> FALSE, Data |-> <<>>,
     LastRequestTimeEnd |-> "zero", TotalErrors |-> 0, LastResponseStatus |-> 0,
     LastResponseError |-> "", TotalChunks |-> 0]

\* no request was made
NoRequest == [kind |-> "none", code |-> 0, err |-> ""]

\* what a call on the uploader leaves: the uploader, what the call returned
\* ("nil", an error text or "panic"), whether it slept before its request, and
\* the request it made
UploaderResult(u, ret, delayed, req) ==
    [tu |-> u, ret |-> ret, delayed |-> delayed, req |-> req]

(* c.post(route, payload): the status code and the error the node's answer *)
(* resp gives: -1 and the transport error when no answer came, the code    *)
(* and "<code>: <body>" for a code of 400 or more, the code and nil else.  *)
post(resp) ==
    IF resp.code < 0 THEN [code |-> 0 - 1, err |-> resp.body]
    ELSE IF resp.code >= 400 THEN [code |-> resp.code, err |-> resp.body]
    ELSE [code |-> resp.code, err |-> ""]

\* tu.PostTransaction(), r what SubmitTransaction returned, for tu.TotalChunks <= MAX_CHUNKS_IN_BODY
postTransactionInBody(u, r, delayed) ==
    IF r.err # "" THEN UploaderResult(u, r.err, delayed, [kind |-> "tx", code |-> r.code, err |-> r.err])
    ELSE UploaderResult(
             [u EXCEPT !.LastRequestTimeEnd = "now", !.LastResponseStatus = r.code,
                       !.TxPosted = IF r.code >= 200 /\ r.code < 400 THEN TRUE ELSE @,
                       !.ChunkIndex = IF r.code >= 200 /\ r.code < 400
                                      THEN MAX_CHUNKS_IN_BODY ELSE @],
             "nil", delayed, [kind |-> "tx", code |-> r.code, err |-> ""])

\* tu.PostTransaction(), r what SubmitTransaction returned, for a transaction
\* of more chunks: u is the uploader after t.Data = ""
postTransactionHeader(u, r, delayed) ==
    IF r.err # "" THEN UploaderResult(u, r.err, delayed, [kind |-> "tx", code |-> r.code, err |-> r.err])
    ELSE UploaderResult(
             [u EXCEPT !.LastRequestTimeEnd = "now", !.LastResponseStatus = r.code,
                       !.TxPosted = IF r.code >= 200 /\ r.code < 300 THEN TRUE ELSE @],
             "nil", delayed, [kind |-> "tx", code |-> r.code, err |-> ""])

\* tu.PostTransaction() called from UploadChunk after a sleep or not, the node answering resp
postTransactionOf(u, resp, delayed) ==
    IF u.TotalChunks <= MAX_CHUNKS_IN_BODY
    THEN postTransactionInBody(u, post(resp), delayed)
    ELSE postTransactionHeader([u EXCEPT !.transaction.Data = EmptyString], post(resp), delayed)

\* tu.PostTransaction(), the node answering resp
PostTransaction(u, resp) == postTransactionOf(u, resp, FALSE)

\* UploadChunk, the count of errors: one more after an error text was kept, 0 else
countErrors(u) ==
    IF u.LastResponseError # "" THEN [u EXCEPT !.TotalErrors = @ + 1]
    ELSE [u EXCEPT !.TotalErrors = 0]

\* UploadChunk from client.UploadChunk on, r what it returned
uploadChunkSent(u, r, delayed, withErr) ==
    IF r.code = 200
    THEN UploaderResult([u EXCEPT !.LastRequestTimeEnd = "hour", !.LastResponseStatus = r.code,
                                  !.ChunkIndex = @ + 1],
                        "nil", delayed, [kind |-> "chunk", code |-> r.code, err |-> r.err])
    ELSE UploaderResult([u EXCEPT !.LastRequestTimeEnd = "hour", !.LastResponseStatus = r.code,
                                  !.LastResponseError = withErr],
                        IF withErr \in FATAL_CHUNK_UPLOAD_ERRORS
                        THEN "fatal: unable to complete upload" ELSE "nil",
                        delayed, [kind |-> "chunk", code |-> r.code, err |-> r.err])

\* UploadChunk from tu.transaction.GetChunk on, chunk what GetChunk returned
uploadChunkGot(u, chunk, r, delayed) ==
    IF chunk.outcome = "panic" THEN UploaderResult(u, "panic", delayed, NoRequest)
    ELSE IF chunk.outcome = "error" THEN UploaderResult(u, chunk.msg, delayed, NoRequest)
    ELSE uploadChunkSent(u, r, delayed, IF r.err # "" THEN r.err ELSE u.LastResponseError)

\* UploadChunk after the count of errors, the node answering resp
uploadChunkCounted(u, chunkIndex, resp, delayed) ==
    IF u.TotalErrors = 100
    THEN UploaderResult(u, "fatal: unable to complete upload", FALSE, NoRequest)
    ELSE IF ~u.TxPosted THEN postTransactionOf(u, resp, delayed)
    ELSE uploadChunkGot(u, GetChunk(u.transaction, chunkIndex, u.Data), post(resp), delayed)

\* tu.UploadChunk(chunkIndex), the node answering resp.  A delay is DELAY or
\* more, less at most 0.3 of it: the call sleeps whenever an error text is kept.
UploadChunk(u, chunkIndex, resp) ==
    IF u.TxPosted /\ u.transaction.ChunkData = NilChunkData
    THEN UploaderResult(u, "panic", FALSE, NoRequest)
    ELSE IF u.TxPosted /\ u.ChunkIndex = Len(u.transaction.ChunkData[1].Chunks)
    THEN UploaderResult(u, "upload is already complete", FALSE, NoRequest)
    ELSE uploadChunkCounted(countErrors(u), chunkIndex, resp, u.LastResponseError # "")

----------------------------------------------------------------------------
(* The uploader of a signed transaction, every request answered by the     *)
(* node in one of the ways of NodeResponses.                               *)

\* the calls made on one uploader
MaxCalls == 4

\* no data, one chunk, two chunks and three chunks
UploaderPayloads ==
    {<<>>, Fill(7, PayloadLen), Cat(Fill(1, MAX_CHUNK_SIZE), Fill(2, PayloadLen)),
     Cat(Fill(1, MAX_CHUNK_SIZE), Cat(Fill(2, MAX_CHUNK_SIZE), Fill(3, PayloadLen)))}

\* the answers of the node: accepted, accepted with another code, refused, and none
NodeResponses ==
    {[code |-> 200, body |-> "OK"], [code |-> 208, body |-> "OK"],
     [code |-> 400, body |-> "400: invalid_proof"],
     [code |-> 0 - 1, body |-> "connection refused"]}

\* the transaction of the given data, signed by s
signedTransaction(rawData, s) ==
    transactionSign([transactionNew(rawData, EmptyString, <<>>, <<>>)
                        EXCEPT !.Owner = Owner(s), !.Reward = Str(<<49, 48>>)], s, 1).tx

\* the chunks of the transaction of the uploader
chunksOf(u) == u.transaction.ChunkData[1].Chunks

UploaderInit ==
    /\ MerkleIdle /\ ItemIdle /\ StreamIdle /\ BundleIdle /\ TxIdle
    /\ \E rawData \in UploaderPayloads, s \in Signers :
          tu = uploaderNew(signedTransaction(rawData, s))
    /\ ucall = [kind |-> "New", arg |-> 0, ret |-> "nil", delayed |-> FALSE,
                req |-> NoRequest, prev |-> NoRequest, before |-> [ChunkIndex |-> 0], n |-> 0]

\* the call of the given kind returned res
uploaderCalled(kind, arg, res) ==
    /\ tu' = res.tu
    /\ ucall' = [kind |-> kind, arg |-> arg, ret |-> res.ret, delayed |-> res.delayed,
                 req |-> IF res.req.kind = "none" THEN ucall.req ELSE res.req,
                 prev |-> ucall.req, before |-> tu, n |-> ucall.n + 1]

\* the caller sets the exported fields after New: tu.Data to the data of the
\* transaction, and tu.TotalChunks to the number of its chunks or not
UploaderSetFields ==
    /\ ucall.kind = "New"
    /\ tu.Data = <<>>
    /\ BLen(Base64URLDecode(tu.transaction.Data)) > 0
    /\ \E total \in {0, Len(chunksOf(tu))} :
          tu' = [tu EXCEPT !.Data = Base64URLDecode(tu.transaction.Data),
                           !.TotalChunks = total]
    /\ UNCHANGED ucall

\* err := tu.PostTransaction()
UploaderPostTransaction ==
    /\ ucall.kind # "none"
    /\ ucall.n < MaxCalls
    /\ ucall.ret # "panic"
    /\ \E resp \in NodeResponses :
          uploaderCalled("PostTransaction", 0, PostTransaction(tu, resp))

\* err := tu.UploadChunk(chunkIndex)
UploaderUploadChunk ==
    /\ ucall.kind # "none"
    /\ ucall.n < MaxCalls
    /\ ucall.ret # "panic"
    /\ \E chunkIndex \in ChunkIndexes, resp \in NodeResponses :
          uploaderCalled("UploadChunk", chunkIndex, UploadChunk(tu, chunkIndex, resp))

UploaderIdleOthers == UNCHANGED <<merkleVars, itemVars, streamVars, bundleVars, txVars>>

UploaderNext ==
    \/ UploaderSetFields /\ UploaderIdleOthers
    \/ UploaderPostTransaction /\ UploaderIdleOthers
    \/ UploaderUploadChunk /\ UploaderIdleOthers

UploaderSpec == UploaderInit /\ [][UploaderNext]_vars

----------------------------------------------------------------------------
(* Properties of the uploader.                                             *)

\* the uploader has the fields New gave it but those the calls set
AsNewLeftIt == tu.Data = <<>> /\ tu.TotalChunks = 0

\* UploadChunk was called on an uploader whose transaction was posted and
\* whose ChunkIndex was the number of chunks
CalledWhenComplete ==
    /\ ucall.kind = "UploadChunk"
    /\ ucall.before.TxPosted
    /\ ucall.before.ChunkIndex = Len(chunksOf(ucall.before))

(* C29: for an uploader made by New over a signed transaction, after any   *)
(* calls of PostTransaction and UploadChunk and any answers of the node,   *)
(* 0 <= ChunkIndex <= len(transaction.ChunkData.Chunks), and an UploadChunk *)
(* call made when TxPosted is true and ChunkIndex is the number of chunks   *)
(* returns "upload is already complete" and leaves ChunkIndex as it was.    *)
UploaderProgress ==
    (ucall.kind # "none" /\ AsNewLeftIt) =>
        /\ 0 <= tu.ChunkIndex
        /\ tu.ChunkIndex <= Len(chunksOf(tu))
        /\ CalledWhenComplete =>
              /\ ucall.ret = "upload is already complete"
              /\ tu.ChunkIndex = ucall.before.ChunkIndex

\* the request failed: no answer, an answer with an error, or a chunk not
\* answered with status 200
RequestFailed(req) == req.err # "" \/ (req.kind = "chunk" /\ req.code # 200)

\* UploadChunk was called and went on past the check for a complete upload
UploadChunkWentOn ==
    ucall.kind = "UploadChunk" /\ ucall.ret # "upload is already complete"

(* C30: an UploadChunk call adds to TotalErrors only when the request      *)
(* before it failed, and an UploadChunk call that follows a chunk upload   *)
(* answered with status 200 leaves TotalErrors 0 and does not sleep.       *)
UploaderCountsConsecutiveFailures ==
    UploadChunkWentOn =>
        /\ tu.TotalErrors > ucall.before.TotalErrors => RequestFailed(ucall.prev)
        /\ (ucall.prev.kind = "chunk" /\ ucall.prev.code = 200) =>
              (tu.TotalErrors = 0 /\ ~ucall.delayed)

====
